---- MODULE Spec2Model ----
(***************************************************************************)
(* A model of the INSERT analysis rules of go-mysql-server                 *)
(* (setInsertColumns, resolveInsertRows, resolvePreparedInsert and their   *)
(* helpers), of the session query-info functions (ROW_COUNT, FOUND_ROWS,   *)
(* LAST_INSERT_ID) and of the IN / NOT IN comparison.                      *)
(***************************************************************************)
EXTENDS Integers, Sequences, FiniteSets, TLC

VARIABLES
    table,    \* the destination table: schema and capabilities
    node,     \* the InsertInto plan the next rule is applied to
    before,   \* the value the plan passed to the last rule had when it was passed
    given,    \* the value that same plan object has after the rule returned
    rule,     \* the last rule applied ("none" before the first)
    tid,      \* the transform.TreeIdentity the last rule returned
    err,      \* the error the last rule returned (NoErr for nil)
    info,     \* the last-query-info of each session's Context
    pc,       \* where each session is in evaluating LAST_INSERT_ID(expr)
    actor,    \* the session that took the last step
    op,       \* the evaluation that step was part of
    ret,      \* what the evaluation returned
    cmp,      \* an IN / NOT IN comparison: operands, operator, result
    call,     \* a call of a helper of sql/type.go: function, arguments, result
    cte,      \* the evaluation of a recursive common table expression
    idx,      \* a table with a unique prefix index, and the last INSERT into it
    doc       \* a JSON document, the last mutation of it and what it returned

insertVars == <<table, node, before, given, rule, tid, err>>
sessionVars == <<info, pc, actor, op, ret>>
typeVars == <<call>>
cteVars == <<cte>>
indexVars == <<idx>>
jsonVars == <<doc>>

vars == <<table, node, before, given, rule, tid, err, info, pc, actor, op, ret, cmp,
          call, cte, idx, doc>>

-----------------------------------------------------------------------------
(* Bounds of the model *)

MaxCols == 2      \* columns of the destination table
MaxTuples == 2    \* value tuples of an INSERT ... VALUES
MaxWraps == 2     \* projections resolveInsertRows wraps around one source
WordBits == 4     \* width the model gives Go's 64-bit integers
MaxList == 3      \* elements of an IN list

-----------------------------------------------------------------------------
(* Names.  strings.ToLower and strings.EqualFold over the names in use. *)

ToLower(s) ==
    CASE s = "A" -> "a"
      [] s = "B" -> "b"
      [] s = "C" -> "c"
      [] OTHER -> s

EqualFold(s, t) == ToLower(s) = ToLower(t)

\* The name of the destination column at each schema position.
SchemaNames == <<"a", "B", "c", "d">>

\* The names an INSERT column list is written with ("x" names no column).
ListNames == {"a", "A", "b", "x"}

-----------------------------------------------------------------------------
(* sql.Column: the fields the insert rules read. *)

Col(name, nullable, hasDefault, autoInc, generated) ==
    [Name |-> name, Nullable |-> nullable, HasDefault |-> hasDefault,
     AutoIncrement |-> autoInc, Generated |-> generated]

ColumnsNamed(name) ==
    { Col(name, FALSE, FALSE, FALSE, FALSE),   \* NOT NULL, no default
      Col(name, TRUE, FALSE, FALSE, FALSE),    \* nullable
      Col(name, FALSE, TRUE, FALSE, FALSE),    \* NOT NULL DEFAULT ...
      Col(name, FALSE, FALSE, TRUE, FALSE),    \* NOT NULL AUTO_INCREMENT
      Col(name, TRUE, FALSE, FALSE, TRUE),     \* GENERATED ALWAYS AS ...
      Col(name, FALSE, FALSE, FALSE, TRUE) }   \* GENERATED ... NOT NULL

Schemas ==
    UNION { { s \in [1..n -> UNION {ColumnsNamed(SchemaNames[i]) : i \in 1..n}] :
                \A i \in 1..n : s[i].Name = SchemaNames[i] } : n \in 1..MaxCols }

SeqsUpTo(S, lo, hi) == UNION { [1..n -> S] : n \in lo..hi }

-----------------------------------------------------------------------------
(* Errors.  NoErr is Go's nil error. *)

NoErr == [kind |-> "nil", arg |-> ""]
Error(kind, arg) == [kind |-> kind, arg |-> arg]

NoNode == [kind |-> "nil"]

-----------------------------------------------------------------------------
(* Plan nodes that can be the source of an INSERT.                         *)
(*   Values          tuples: the number of expressions of each value tuple *)
(*   Select          any SELECT statement: width columns; compat says      *)
(*                   whether every column's zero value converts to the     *)
(*                   type of the destination column that reads it          *)
(*   Exchange        child                                                 *)
(*   LoadData        ncols column names, width columns                     *)
(*   TriggerExecutor width columns                                         *)
(*   Project         exprs over child (built by wrapRowSource)             *)

ValuesNode(tuples) == [kind |-> "Values", tuples |-> tuples]
SelectNode(width, compat) == [kind |-> "Select", width |-> width, compat |-> compat]
ExchangeNode(child) == [kind |-> "Exchange", child |-> child]
LoadDataNode(ncols, width) == [kind |-> "LoadData", ncols |-> ncols, width |-> width]
TriggerExecutorNode(width) == [kind |-> "TriggerExecutor", width |-> width]

\* plan.NewProject
NewProject(exprs, child) == [kind |-> "Project", exprs |-> exprs, child |-> child]

\* Node.Schema(): the number of columns of a node's rows.
RECURSIVE SchemaLen(_)
SchemaLen(n) ==
    CASE n.kind = "Values" -> IF Len(n.tuples) = 0 THEN 0 ELSE n.tuples[1]
      [] n.kind = "Exchange" -> SchemaLen(n.child)
      [] n.kind = "Project" -> Len(n.exprs)
      [] OTHER -> n.width

\* Whether Convert accepts the zero value of each column of the node for the
\* destination column that reads it.
RECURSIVE TypesConvert(_)
TypesConvert(n) ==
    CASE n.kind = "Select" -> n.compat
      [] n.kind = "Exchange" -> TypesConvert(n.child)
      [] OTHER -> TRUE

(* Expressions of the projection. *)
NewGetField(index, name) == [kind |-> "GetField", index |-> index, name |-> name]
ColumnDefaultValue(f) == [kind |-> "ColumnDefaultValue", col |-> f.Name, isNil |-> ~f.HasDefault]
NewAutoIncrement(child) == [kind |-> "AutoIncrement", child |-> child]

(* plan.InsertInto: the fields the rules read and write. *)
InsertInto(columnNames, source, isReplace, onDupExprs) ==
    [ColumnNames |-> columnNames, Source |-> source,
     IsReplace |-> isReplace, OnDupExprs |-> onDupExprs]

\* InsertInto.WithSource: a copy of the node with the source replaced.
WithSource(ii, source) == [ii EXCEPT !.Source = source]

\* What a rule returns, together with the value the plan object it was given
\* has when it returns (arg).
Ret(arg, n, identity, e) == [arg |-> arg, node |-> n, tid |-> identity, err |-> e]

-----------------------------------------------------------------------------
(* Code outside the insert rules, modelled from the design. *)

\* plan.GetInsertable: capability probing of the destination.
GetInsertable(t) ==
    IF t.Insertable THEN NoErr ELSE Error("ErrInsertIntoNotSupported", "")

\* Analyzer.analyzeWithSelector followed by StripPassthroughNodes, on a
\* source that is already resolved: analysis leaves it unchanged.
analyzeSource(source) == source

-----------------------------------------------------------------------------
(* The helpers of the insert rules. *)

\* existsNonZeroValueCount: some value tuple is not empty; TRUE for every
\* source that is not a Values node.
existsNonZeroValueCount(values) ==
    IF values.kind = "Values"
    THEN \E k \in 1..Len(values.tuples) : values.tuples[k] # 0
    ELSE TRUE

\* A faulty variant of DstCols: the destination names are not lower-cased.
DstCols_CaseSensitive(columnName, dstSchema) ==
    { i \in 1..Len(dstSchema) : dstSchema[i].Name = columnName }

\* The column of dstSchema that dstColNames maps columnName to, if any.
DstCols(columnName, dstSchema) ==
    { i \in 1..Len(dstSchema) : ToLower(dstSchema[i].Name) = columnName }

\* The error validateColumns' loop body finds at position k, NoErr if none.
validateColumnAt(tableName, columnNames, dstSchema, k) ==
    LET columnName == columnNames[k]
        found == DstCols(columnName, dstSchema)
    IN  IF found = {}
        THEN Error("ErrInsertIntoNonexistentColumn", columnName)
        ELSE LET dstCol == dstSchema[CHOOSE i \in found : \A j \in found : j <= i]
             IN  IF dstCol.Generated
                 THEN Error("ErrGeneratedColumnValue", dstCol.Name)
                 ELSE IF \E j \in 1..(k - 1) : columnNames[j] = columnName
                      THEN Error("ErrInsertIntoDuplicateColumn", columnName)
                      ELSE NoErr

\* validateColumns: the error of the first column name that has one.
validateColumns(tableName, columnNames, dstSchema) ==
    LET bad == { k \in 1..Len(columnNames) :
                   validateColumnAt(tableName, columnNames, dstSchema, k) # NoErr }
    IN  IF bad = {}
        THEN NoErr
        ELSE validateColumnAt(tableName, columnNames, dstSchema,
                              CHOOSE k \in bad : \A j \in bad : k <= j)

\* A faulty variant of validateValueCount: value tuples are not counted.
validateValueCount_SkippingValues(columnNames, source) ==
    LET values == IF source.kind = "Exchange" THEN source.child ELSE source
    IN  CASE values.kind = "Values" -> NoErr
          [] values.kind = "LoadData" ->
               LET dataColLen == IF values.ncols = 0 THEN values.width ELSE values.ncols
               IN  IF Len(columnNames) # dataColLen
                   THEN Error("ErrInsertIntoMismatchValueCount", "")
                   ELSE NoErr
          [] OTHER ->
               IF Len(columnNames) # SchemaLen(values)
               THEN Error("ErrInsertIntoMismatchValueCount", "")
               ELSE NoErr

\* validateValueCount
validateValueCount(columnNames, source) ==
    LET values == IF source.kind = "Exchange" THEN source.child ELSE source
    IN  CASE values.kind = "Values" ->
               IF \E k \in 1..Len(values.tuples) : values.tuples[k] # Len(columnNames)
               THEN Error("ErrInsertIntoMismatchValueCount", "")
               ELSE NoErr
          [] values.kind = "LoadData" ->
               LET dataColLen == IF values.ncols = 0 THEN values.width ELSE values.ncols
               IN  IF Len(columnNames) # dataColLen
                   THEN Error("ErrInsertIntoMismatchValueCount", "")
                   ELSE NoErr
          [] OTHER ->
               IF Len(columnNames) # SchemaLen(values)
               THEN Error("ErrInsertIntoMismatchValueCount", "")
               ELSE NoErr

\* The error assertCompatibleSchemas' loop body finds for one expression.
assertCompatibleAt(expr, values) ==
    CASE expr.kind \in {"Literal", "AutoIncrement", "ColumnDefaultValue"} -> NoErr
      [] expr.kind = "GetField" ->
           IF expr.index < 0 \/ expr.index >= SchemaLen(values)
           THEN Error("panic: index out of range", expr.name)
           ELSE IF TypesConvert(values)
                THEN NoErr
                ELSE Error("ErrInsertIntoIncompatibleTypes", expr.name)
      [] OTHER -> Error("ErrInsertIntoUnsupportedValues", "")

\* assertCompatibleSchemas: the error of the first expression that has one.
assertCompatibleSchemas(projExprs, values) ==
    LET bad == { i \in 1..Len(projExprs) : assertCompatibleAt(projExprs[i], values) # NoErr }
    IN  IF bad = {}
        THEN NoErr
        ELSE assertCompatibleAt(projExprs[CHOOSE i \in bad : \A j \in bad : i <= j], values)

\* validateRowSource
validateRowSource(source, projExprs) ==
    LET values == IF source.kind = "Exchange" THEN source.child ELSE source
    IN  IF values.kind \in {"Values", "LoadData"}
        THEN NoErr
        ELSE assertCompatibleSchemas(projExprs, values)

\* The positions of columnNames that name column f (strings.EqualFold).
NamedAt(f, columnNames) ==
    { j \in 1..Len(columnNames) : EqualFold(f.Name, columnNames[j]) }

\* A faulty variant of MissingRequired: auto-increment columns are not exempt.
MissingRequired_IgnoringAutoIncrement(f, columnNames) ==
    /\ NamedAt(f, columnNames) = {}
    /\ ~f.Nullable /\ ~f.HasDefault

\* A column the column list leaves out and that cannot be left out.
MissingRequired(f, columnNames) ==
    /\ NamedAt(f, columnNames) = {}
    /\ ~f.Nullable /\ ~f.HasDefault /\ ~f.AutoIncrement

\* A faulty variant of projExpr: the field index is the one-based position.
projExpr_OneBased(f, columnNames) ==
    LET named == NamedAt(f, columnNames)
        base == IF named # {}
                THEN NewGetField(CHOOSE j \in named : \A k \in named : j <= k, f.Name)
                ELSE ColumnDefaultValue(f)
    IN  IF f.AutoIncrement THEN NewAutoIncrement(base) ELSE base

\* wrapRowSource's expression for destination column f.
projExpr(f, columnNames) ==
    LET named == NamedAt(f, columnNames)
        base == IF named # {}
                THEN NewGetField((CHOOSE j \in named : \A k \in named : j <= k) - 1, f.Name)
                ELSE ColumnDefaultValue(f)
    IN  IF f.AutoIncrement THEN NewAutoIncrement(base) ELSE base

\* wrapRowSource: the projection over insertSource, or the first error.
wrapRowSource(insertSource, schema, columnNames) ==
    LET missing == { i \in 1..Len(schema) : MissingRequired(schema[i], columnNames) }
        projExprs == [i \in 1..Len(schema) |-> projExpr(schema[i], columnNames)]
    IN  IF missing # {}
        THEN [err |-> Error("ErrInsertIntoNonNullableDefaultNullColumn",
                            schema[CHOOSE i \in missing : \A j \in missing : i <= j].Name),
              node |-> NoNode]
        ELSE IF validateRowSource(insertSource, projExprs) # NoErr
             THEN [err |-> validateRowSource(insertSource, projExprs), node |-> NoNode]
             ELSE [err |-> NoErr, node |-> NewProject(projExprs, insertSource)]

-----------------------------------------------------------------------------
(* The rules.  Each takes the InsertInto node ii and the destination t.    *)

\* setInsertColumns: fills in the column names of an INSERT that gives none.
\* The names are assigned to the node the rule was given (ii.ColumnNames =
\* colNames), and that node is returned.
setInsertColumns(ii, t) ==
    IF ~t.Resolved
    THEN Ret(ii, ii, "SameTree", NoErr)
    ELSE IF Len(ii.ColumnNames) = 0
         THEN LET gen == { i \in 1..Len(t.schema) : t.schema[i].Generated }
                  filled == [ii EXCEPT !.ColumnNames =
                                [i \in 1..Len(t.schema) |-> t.schema[i].Name]]
              IN  IF gen # {}
                  THEN Ret(ii, NoNode, "SameTree",
                           Error("ErrGeneratedColumnValue",
                                 t.schema[CHOOSE i \in gen : \A j \in gen : i <= j].Name))
                  ELSE Ret(filled, filled, "NewTree", NoErr)
         ELSE Ret(ii, ii, "NewTree", NoErr)

\* The column names resolveInsertRows validates the source against.
effectiveColumnNames(insert, source, dstSchema) ==
    LET columnNames == [i \in 1..Len(insert.ColumnNames) |-> ToLower(insert.ColumnNames[i])]
    IN  IF Len(columnNames) = 0 /\ existsNonZeroValueCount(source)
        THEN [i \in 1..Len(dstSchema) |-> dstSchema[i].Name]
        ELSE columnNames

\* A faulty variant of checkCapabilities: REPLACE probes for an updatable
\* table and ON DUPLICATE KEY UPDATE for a replaceable one.
checkCapabilities_Swapped(insert, t) ==
    IF GetInsertable(t) # NoErr
    THEN GetInsertable(t)
    ELSE IF insert.IsReplace /\ ~t.Updatable
         THEN Error("ErrReplaceIntoNotSupported", "")
         ELSE IF insert.OnDupExprs > 0 /\ ~t.Replaceable
              THEN Error("ErrOnDuplicateKeyUpdateNotSupported", "")
              ELSE NoErr

\* The capability checks of resolveInsertRows.
checkCapabilities(insert, t) ==
    IF GetInsertable(t) # NoErr
    THEN GetInsertable(t)
    ELSE IF insert.IsReplace /\ ~t.Replaceable
         THEN Error("ErrReplaceIntoNotSupported", "")
         ELSE IF insert.OnDupExprs > 0 /\ ~t.Updatable
              THEN Error("ErrOnDuplicateKeyUpdateNotSupported", "")
              ELSE NoErr

\* The column validation of resolveInsertRows: skipped when no column is
\* given and the full schema is used instead.
checkColumns(insert, source, t) ==
    LET columnNames == [i \in 1..Len(insert.ColumnNames) |-> ToLower(insert.ColumnNames[i])]
    IN  IF Len(columnNames) = 0 /\ existsNonZeroValueCount(source)
        THEN NoErr
        ELSE validateColumns(t.name, columnNames, t.schema)

\* resolveInsertRows
resolveInsertRows(insert, t) ==
    LET source == IF insert.Source.kind = "TriggerExecutor"
                  THEN insert.Source
                  ELSE analyzeSource(insert.Source)
        columnNames == effectiveColumnNames(insert, source, t.schema)
        project == wrapRowSource(source, t.schema, columnNames)
    IN  IF checkCapabilities(insert, t) # NoErr
        THEN Ret(insert, NoNode, "SameTree", checkCapabilities(insert, t))
        ELSE IF checkColumns(insert, source, t) # NoErr
        THEN Ret(insert, NoNode, "SameTree", checkColumns(insert, source, t))
        ELSE IF validateValueCount(columnNames, source) # NoErr
        THEN Ret(insert, NoNode, "SameTree", validateValueCount(columnNames, source))
        ELSE IF project.err # NoErr
        THEN Ret(insert, NoNode, "SameTree", project.err)
        ELSE Ret(insert, WithSource(insert, project.node), "NewTree", NoErr)

\* resolvePreparedInsert
resolvePreparedInsert(ins, t) ==
    IF ins.Source.kind = "TriggerExecutor"
    THEN Ret(ins, ins, "SameTree", NoErr)
    ELSE Ret(ins, WithSource(ins, analyzeSource(ins.Source)), "NewTree", NoErr)

-----------------------------------------------------------------------------
(* Session query-info: ROW_COUNT(), FOUND_ROWS(), LAST_INSERT_ID([expr]).  *)

Sessions == {"s1", "s2"}

\* Go's int64 and uint64, at the model's width.
MinInt64 == -(2 ^ (WordBits - 1))
MaxInt64 == 2 ^ (WordBits - 1) - 1
MaxUint64 == 2 ^ WordBits - 1

(* The values an expression evaluates to, by Go type.  A float64 holds     *)
(* val / 2.  nil is SQL NULL.                                              *)
GoValue(type, val) == [type |-> type, val |-> val]
Int64Value(n) == GoValue("int64", n)
NilValue == GoValue("nil", 0)

\* The values an argument of LAST_INSERT_ID evaluates to.
NumericResults ==
    { GoValue("int64", 2), GoValue("int8", -3), GoValue("uint64", MaxUint64),
      GoValue("float64", 5) }
OtherResults == { NilValue, GoValue("string", 7), GoValue("decimal", 7) }

\* What evaluating the argument gives: a value, or an error.
ChildOk(v) == [err |-> FALSE, value |-> v]
ChildErr == [err |-> TRUE, value |-> NilValue]
ChildResults == { ChildOk(v) : v \in NumericResults \cup OtherResults } \cup { ChildErr }

Panic == GoValue("panic", 0)

\* A faulty variant of toInt64: an unsigned value keeps its magnitude.
toInt64_Unwrapped(x) ==
    CASE x.type \in {"int", "int8", "int16", "int32", "int64"} -> Int64Value(x.val)
      [] x.type \in {"uint", "uint8", "uint16", "uint32", "uint64"} -> Int64Value(x.val)
      [] x.type \in {"float32", "float64"} ->
           Int64Value(IF x.val >= 0 THEN x.val \div 2 ELSE -((-x.val) \div 2))
      [] OTHER -> GoValue("panic", 0)

\* toInt64: Go's int64(x) for the numeric types, a panic for any other.
\* uint is as wide as uint64.
toInt64(x) ==
    CASE x.type \in {"int", "int8", "int16", "int32", "int64"} -> Int64Value(x.val)
      [] x.type \in {"uint8", "uint16", "uint32"} -> Int64Value(x.val)
      [] x.type \in {"uint", "uint64"} ->
           Int64Value(IF x.val > MaxInt64 THEN x.val - 2 ^ WordBits ELSE x.val)
      [] x.type \in {"float32", "float64"} ->
           Int64Value(IF x.val >= 0 THEN x.val \div 2 ELSE -((-x.val) \div 2))
      [] OTHER -> Panic

\* Context.GetLastQueryInfo and Context.SetLastQueryInfo: the query info
\* lives on the session's Context.
GetLastQueryInfo(store, s, key) == store[s][key]
SetLastQueryInfo(store, s, key, value) == [store EXCEPT ![s][key] = value]

\* A faulty variant of RowCountEval: the key read is FoundRows.
RowCountEval_OtherKey(store, s) == Int64Value(GetLastQueryInfo(store, s, "FoundRows"))

\* RowCount.Eval
RowCountEval(store, s) == Int64Value(GetLastQueryInfo(store, s, "RowCount"))

\* FoundRows.Eval
FoundRowsEval(store, s) == Int64Value(GetLastQueryInfo(store, s, "FoundRows"))

\* LastInsertId.Eval without an argument
LastInsertIdEval(store, s) == Int64Value(GetLastQueryInfo(store, s, "LastInsertId"))

\* A faulty variant of LastInsertIdStore: the id is kept in one place for
\* the whole process.
LastInsertIdStore_ProcessGlobal(store, s, res) ==
    [t \in DOMAIN store |-> [store[t] EXCEPT !.LastInsertId = toInt64(res).val]]

\* LastInsertId.Eval with an argument, after the argument evaluated to res:
\* ctx.SetLastQueryInfo(sql.LastInsertId, toInt64(res)).
LastInsertIdStore(store, s, res) ==
    SetLastQueryInfo(store, s, "LastInsertId", toInt64(res).val)

QueryInfo(rowCount, foundRows, lastInsertId) ==
    [RowCount |-> rowCount, FoundRows |-> foundRows, LastInsertId |-> lastInsertId]

Idle == [at |-> "idle", child |-> ChildErr]
Evaluated(c) == [at |-> "evaluated", child |-> c]
Panicked == [at |-> "panicked", child |-> ChildErr]

NoValue == GoValue("none", 0)

\* Every session starts with the query info of a new session.
InitSessions ==
    /\ info = [s \in Sessions |-> QueryInfo(0, 1, 0)]
    /\ pc = [s \in Sessions |-> Idle]
    /\ actor = "none"
    /\ op = "none"
    /\ ret = NoValue

\* A statement runs in session s and the executor records its query info.
RunStatement(s) ==
    /\ pc[s].at = "idle"
    /\ \E rc \in {0, 1}, fr \in {0, 1}, id \in {0, 1} :
         info' = [info EXCEPT ![s] = QueryInfo(rc, fr, id)]
    /\ actor' = s /\ op' = "statement" /\ ret' = NoValue
    /\ UNCHANGED pc
    /\ UNCHANGED <<insertVars, cmp, typeVars, cteVars, indexVars, jsonVars>>

\* ROW_COUNT() is evaluated in session s.
EvalRowCount(s) ==
    /\ pc[s].at = "idle"
    /\ actor' = s /\ op' = "ROW_COUNT()" /\ ret' = RowCountEval(info, s)
    /\ UNCHANGED <<info, pc>>
    /\ UNCHANGED <<insertVars, cmp, typeVars, cteVars, indexVars, jsonVars>>

\* FOUND_ROWS() is evaluated in session s.
EvalFoundRows(s) ==
    /\ pc[s].at = "idle"
    /\ actor' = s /\ op' = "FOUND_ROWS()" /\ ret' = FoundRowsEval(info, s)
    /\ UNCHANGED <<info, pc>>
    /\ UNCHANGED <<insertVars, cmp, typeVars, cteVars, indexVars, jsonVars>>

\* LAST_INSERT_ID() is evaluated in session s.
EvalLastInsertId(s) ==
    /\ pc[s].at = "idle"
    /\ actor' = s /\ op' = "LAST_INSERT_ID()" /\ ret' = LastInsertIdEval(info, s)
    /\ UNCHANGED <<info, pc>>
    /\ UNCHANGED <<insertVars, cmp, typeVars, cteVars, indexVars, jsonVars>>

\* LAST_INSERT_ID(expr) in session s: the argument is evaluated.
EvalChild(s) ==
    /\ pc[s].at = "idle"
    /\ \E c \in ChildResults : pc' = [pc EXCEPT ![s] = Evaluated(c)]
    /\ actor' = s /\ op' = "expr" /\ ret' = NoValue
    /\ UNCHANGED info
    /\ UNCHANGED <<insertVars, cmp, typeVars, cteVars, indexVars, jsonVars>>

\* A faulty variant of EvalLastInsertIdExprError: the id is cleared before
\* the argument's error is looked at.
EvalLastInsertIdExprError_ClearsId(s) ==
    /\ pc[s].at = "evaluated" /\ pc[s].child.err
    /\ pc' = [pc EXCEPT ![s] = Idle]
    /\ actor' = s /\ op' = "LAST_INSERT_ID(expr) error" /\ ret' = NoValue
    /\ info' = SetLastQueryInfo(info, s, "LastInsertId", 0)
    /\ UNCHANGED <<insertVars, cmp, typeVars, cteVars, indexVars, jsonVars>>

\* LAST_INSERT_ID(expr) in session s: the argument failed, and so does Eval.
EvalLastInsertIdExprError(s) ==
    /\ pc[s].at = "evaluated" /\ pc[s].child.err
    /\ pc' = [pc EXCEPT ![s] = Idle]
    /\ actor' = s /\ op' = "LAST_INSERT_ID(expr) error" /\ ret' = NoValue
    /\ UNCHANGED info
    /\ UNCHANGED <<insertVars, cmp, typeVars, cteVars, indexVars, jsonVars>>

\* LAST_INSERT_ID(expr) in session s: toInt64 panics on the argument's value.
EvalLastInsertIdExprPanic(s) ==
    /\ pc[s].at = "evaluated" /\ ~pc[s].child.err
    /\ toInt64(pc[s].child.value) = Panic
    /\ pc' = [pc EXCEPT ![s] = Panicked]
    /\ actor' = s /\ op' = "LAST_INSERT_ID(expr) panic" /\ ret' = NoValue
    /\ UNCHANGED info
    /\ UNCHANGED <<insertVars, cmp, typeVars, cteVars, indexVars, jsonVars>>

\* LAST_INSERT_ID(expr) in session s: the value is stored and returned.
EvalLastInsertIdExpr(s) ==
    /\ pc[s].at = "evaluated" /\ ~pc[s].child.err
    /\ toInt64(pc[s].child.value) # Panic
    /\ info' = LastInsertIdStore(info, s, pc[s].child.value)
    /\ pc' = [pc EXCEPT ![s] = Idle]
    /\ actor' = s /\ op' = "LAST_INSERT_ID(expr)" /\ ret' = pc[s].child.value
    /\ UNCHANGED <<insertVars, cmp, typeVars, cteVars, indexVars, jsonVars>>

-----------------------------------------------------------------------------
(* x IN (list) and x NOT IN (list) over nullable values. *)

\* A SQL value: NULL, or a concrete value.
Null == [null |-> TRUE, v |-> ""]
Val(v) == [null |-> FALSE, v |-> v]

\* The IN and NOT IN comparisons of literals in QueryTests, with the result
\* each expects ("null" for nil).
QueryTest(x, operator, list, expected) ==
    [x |-> x, op |-> operator, list |-> list, expected |-> expected]

\* A faulty variant of QueryTests: a miss on a list holding NULL is expected
\* to be false.
QueryTests_MissIsFalse ==
    { QueryTest(Val("1"), "IN", <<Val("2"), Val("3"), Val("4"), Null>>, "false"),
      QueryTest(Val("1"), "IN", <<Val("2"), Val("3"), Val("4"), Null, Val("1")>>, "true"),
      QueryTest(Val("1"), "NOT IN", <<Val("2"), Val("3"), Val("4"), Null>>, "true") }

QueryTests ==
    { QueryTest(Val("1"), "IN", <<Val("2"), Val("3"), Val("4"), Null>>, "null"),
      QueryTest(Val("1"), "IN", <<Val("2"), Val("3"), Val("4"), Null, Val("1")>>, "true"),
      QueryTest(Val("1"), "IN", <<Val("1"), Val("2"), Val("3")>>, "true"),
      QueryTest(Val("1"), "IN", <<Val("2"), Val("3"), Val("4")>>, "false"),
      QueryTest(Null, "IN", <<Val("2"), Val("3"), Val("4")>>, "null"),
      QueryTest(Null, "IN", <<Val("2"), Val("3"), Val("4"), Null>>, "null"),
      QueryTest(Val("a"), "IN", <<Val("b"), Val("c"), Null, Val("d")>>, "null"),
      QueryTest(Val("a"), "IN", <<Val("a"), Val("b"), Val("c"), Val("d")>>, "true"),
      QueryTest(Val("a"), "IN", <<Val("b"), Val("c"), Val("d")>>, "false"),
      QueryTest(Val("1"), "NOT IN", <<Val("2"), Val("3"), Val("4"), Null>>, "null"),
      QueryTest(Val("1"), "NOT IN", <<Val("2"), Val("3"), Val("4"), Null, Val("1")>>, "false"),
      QueryTest(Val("1"), "NOT IN", <<Val("1"), Val("2"), Val("3")>>, "false"),
      QueryTest(Val("1"), "NOT IN", <<Val("2"), Val("3"), Val("4")>>, "true"),
      QueryTest(Null, "NOT IN", <<Val("2"), Val("3"), Val("4")>>, "null"),
      QueryTest(Null, "NOT IN", <<Val("2"), Val("3"), Val("4"), Null>>, "null") }

\* The loop of IN over the elements from position k on; sawNull records a
\* NULL element passed on the way.
RECURSIVE InLoop(_, _, _, _)
InLoop(x, list, k, sawNull) ==
    IF k > Len(list)
    THEN IF sawNull THEN "null" ELSE "false"
    ELSE IF list[k].null
         THEN InLoop(x, list, k + 1, TRUE)
         ELSE IF list[k].v = x.v
              THEN "true"
              ELSE InLoop(x, list, k + 1, sawNull)

\* x IN (list)
InTuple(x, list) == IF x.null THEN "null" ELSE InLoop(x, list, 1, FALSE)

\* The loop of NOT IN over the elements from position k on.
RECURSIVE NotInLoop(_, _, _, _)
NotInLoop(x, list, k, sawNull) ==
    IF k > Len(list)
    THEN IF sawNull THEN "null" ELSE "true"
    ELSE IF list[k].null
         THEN NotInLoop(x, list, k + 1, TRUE)
         ELSE IF list[k].v = x.v
              THEN "false"
              ELSE NotInLoop(x, list, k + 1, sawNull)

\* x NOT IN (list)
NotInTuple(x, list) == IF x.null THEN "null" ELSE NotInLoop(x, list, 1, FALSE)

Comparison(x, list, operator, res, expected) ==
    [x |-> x, list |-> list, op |-> operator, res |-> res, expected |-> expected]

SqlValues == { Null, Val("1"), Val("2"), Val("3") }

\* No comparison is in hand.
InitNoComparison == cmp = Comparison(Null, <<Null>>, "none", "none", "none")

\* A comparison of any value with any non-empty list, not yet evaluated.
InitComparisons ==
    cmp \in { Comparison(x, l, "none", "none", "none") :
                x \in SqlValues, l \in SeqsUpTo(SqlValues, 1, MaxList) }

\* The literal comparison of a query test is taken up.
LoadQueryTest ==
    /\ cmp.op = "none" /\ cmp.expected = "none"
    /\ \E t \in QueryTests :
         cmp' = Comparison(t.x, t.list, t.op, "none", t.expected)
    /\ UNCHANGED <<insertVars, sessionVars, typeVars, cteVars, indexVars, jsonVars>>

\* x IN (list) is evaluated.
EvalIn ==
    /\ cmp.res = "none"
    /\ cmp.op \in {"none", "IN"}
    /\ cmp' = [cmp EXCEPT !.op = "IN", !.res = InTuple(cmp.x, cmp.list)]
    /\ UNCHANGED <<insertVars, sessionVars, typeVars, cteVars, indexVars, jsonVars>>

\* x NOT IN (list) is evaluated.
EvalNotIn ==
    /\ cmp.res = "none"
    /\ cmp.op \in {"none", "NOT IN"}
    /\ cmp' = [cmp EXCEPT !.op = "NOT IN", !.res = NotInTuple(cmp.x, cmp.list)]
    /\ UNCHANGED <<insertVars, sessionVars, typeVars, cteVars, indexVars, jsonVars>>

-----------------------------------------------------------------------------
(* sql/type.go: the column counts of operand types, the ordering of nil    *)
(* and the conversion of a value to a boolean.                             *)

MaxArity == 2     \* columns of a tuple type
MaxStr == 3       \* characters of a string given to ConvertToBool

\* A type is a tuple type (a list of types) or any other type.
ScalarType == [kind |-> "scalar", elems |-> <<>>]
TupleType(elems) == [kind |-> "tuple", elems |-> elems]

\* NumColumns: one for all types, except tuples.
NumColumns(t) == IF t.kind = "tuple" THEN Len(t.elems) ELSE 1

\* A faulty variant of ErrIfMismatchedColumns: only the top level is looked at.
ErrIfMismatchedColumns_TopLevelOnly(t1, t2) ==
    IF NumColumns(t1) # NumColumns(t2)
    THEN Error("ErrInvalidOperandColumns", "")
    ELSE NoErr

\* ErrIfMismatchedColumns, and its loop over the subtypes from index i on.
RECURSIVE ErrIfMismatchedColumns(_, _)
RECURSIVE ErrIfMismatchedSubtypes(_, _, _)
ErrIfMismatchedColumns(t1, t2) ==
    IF NumColumns(t1) # NumColumns(t2)
    THEN Error("ErrInvalidOperandColumns", "")
    ELSE IF t1.kind = "tuple" /\ t2.kind = "tuple"
         THEN ErrIfMismatchedSubtypes(t1.elems, t2.elems, 1)
         ELSE NoErr

ErrIfMismatchedSubtypes(v1, v2, i) ==
    IF i > Len(v1)
    THEN NoErr
    ELSE LET e == ErrIfMismatchedColumns(v1[i], v2[i])
         IN IF e # NoErr THEN e ELSE ErrIfMismatchedSubtypes(v1, v2, i + 1)

\* What CompareNulls returns: whether either value is nil, and the ordering.
NullComparison(isNull, order) == [isNull |-> isNull, order |-> order]

\* A faulty variant of CompareNulls: nil is reported as the smaller operand.
CompareNulls_NullFirst(a, b) ==
    LET aIsNull == a = NilValue
        bIsNull == b = NilValue
    IN IF aIsNull /\ bIsNull THEN NullComparison(TRUE, 0)
       ELSE IF aIsNull /\ ~bIsNull THEN NullComparison(TRUE, -1)
       ELSE IF ~aIsNull /\ bIsNull THEN NullComparison(TRUE, 1)
       ELSE NullComparison(FALSE, 0)

\* CompareNulls
CompareNulls(a, b) ==
    LET aIsNull == a = NilValue
        bIsNull == b = NilValue
    IN IF aIsNull /\ bIsNull THEN NullComparison(TRUE, 0)
       ELSE IF aIsNull /\ ~bIsNull THEN NullComparison(TRUE, 1)
       ELSE IF ~aIsNull /\ bIsNull THEN NullComparison(TRUE, -1)
       ELSE NullComparison(FALSE, 0)

\* The characters of the strings in use: digits, sign, point, exponent
\* mark and a letter that is part of no number.
Digits == {"0", "1"}
Chars == Digits \cup {"-", ".", "e", "a"}

\* strconv.ParseFloat reads the mantissa from index i on: digits with at
\* most one point; it stops at a second point or at any other character.
RECURSIVE readMantissa(_, _, _, _, _)
readMantissa(s, i, sawdot, sawdigits, nonzero) ==
    IF i > Len(s)
    THEN [i |-> i, sawdigits |-> sawdigits, nonzero |-> nonzero]
    ELSE IF s[i] = "."
         THEN IF sawdot
              THEN [i |-> i, sawdigits |-> sawdigits, nonzero |-> nonzero]
              ELSE readMantissa(s, i + 1, TRUE, sawdigits, nonzero)
         ELSE IF s[i] \in Digits
              THEN readMantissa(s, i + 1, sawdot, TRUE, nonzero \/ s[i] # "0")
              ELSE [i |-> i, sawdigits |-> sawdigits, nonzero |-> nonzero]

\* The index after the digits that start at index i.
RECURSIVE readDigits(_, _)
readDigits(s, i) ==
    IF i <= Len(s) /\ s[i] \in Digits THEN readDigits(s, i + 1) ELSE i

\* strconv.ParseFloat(s, 64): an optional sign, the mantissa, an optional
\* exponent, and nothing after it.  No string of the lengths in use is out
\* of the range of a float64, so the value is zero exactly when every
\* digit of the mantissa is.
ParseFloat(s) ==
    LET fail == [ok |-> FALSE, nonzero |-> FALSE]
        start == IF s # <<>> /\ s[1] = "-" THEN 2 ELSE 1
        m == readMantissa(s, start, FALSE, FALSE, FALSE)
        hasExp == m.i <= Len(s) /\ s[m.i] = "e"
        expStart == IF m.i + 1 <= Len(s) /\ s[m.i + 1] = "-" THEN m.i + 2 ELSE m.i + 1
        end == IF hasExp THEN readDigits(s, expStart) ELSE m.i
    IN IF s = <<>> THEN fail
       ELSE IF ~m.sawdigits THEN fail
       ELSE IF hasExp /\ end = expStart THEN fail
       ELSE IF end # Len(s) + 1 THEN fail
       ELSE [ok |-> TRUE, nonzero |-> m.nonzero]

\* What ConvertToBool returns.
BoolResult(b, e) == [b |-> b, err |-> e]

\* Go's int64(b) of an unsigned value.
Int64OfUint(v) == IF v > MaxInt64 THEN v - 2 ^ WordBits ELSE v

\* A faulty variant of ConvertToBool: only a positive number is true.
ConvertToBool_PositiveOnly(v) ==
    CASE v.type = "bool" -> BoolResult(v.val = 1, NoErr)
      [] v.type \in {"int", "int64", "int32", "int16", "int8"} ->
           BoolResult(v.val > 0, NoErr)
      [] v.type = "uint" -> BoolResult(Int64OfUint(v.val) > 0, NoErr)
      [] v.type \in {"uint64", "uint32", "uint16", "uint8"} ->
           BoolResult(v.val > 0, NoErr)
      [] v.type \in {"time.Duration", "time.Time"} -> BoolResult(v.val > 0, NoErr)
      [] v.type \in {"float32", "float64"} -> BoolResult(v.val > 0, NoErr)
      [] v.type = "string" ->
           IF ~ParseFloat(v.val).ok
           THEN BoolResult(FALSE, NoErr)
           ELSE BoolResult(ParseFloat(v.val).nonzero /\ v.val[1] # "-", NoErr)
      [] v.type = "nil" -> BoolResult(FALSE, Error("unable to cast nil to bool", ""))
      [] OTHER -> BoolResult(FALSE, Error("unable to cast to bool", v.type))

\* ConvertToBool.  A signed integer is widened to int64, an unsigned one to
\* uint64 (uint goes through int64), a float32 to float64; a time.Time is
\* zero when its UnixNano is.
ConvertToBool(v) ==
    CASE v.type = "bool" -> BoolResult(v.val = 1, NoErr)
      [] v.type \in {"int", "int64", "int32", "int16", "int8"} ->
           BoolResult(~(v.val = 0), NoErr)
      [] v.type = "uint" -> BoolResult(~(Int64OfUint(v.val) = 0), NoErr)
      [] v.type \in {"uint64", "uint32", "uint16", "uint8"} ->
           BoolResult(~(v.val = 0), NoErr)
      [] v.type \in {"time.Duration", "time.Time"} -> BoolResult(~(v.val = 0), NoErr)
      [] v.type \in {"float32", "float64"} -> BoolResult(~(v.val = 0), NoErr)
      [] v.type = "string" ->
           IF ~ParseFloat(v.val).ok
           THEN BoolResult(FALSE, NoErr)
           ELSE BoolResult(ParseFloat(v.val).nonzero, NoErr)
      [] v.type = "nil" -> BoolResult(FALSE, Error("unable to cast nil to bool", ""))
      [] OTHER -> BoolResult(FALSE, Error("unable to cast to bool", v.type))

\* The types of the operands: every type of at most two levels of tuples.
TuplesOver(S) == { TupleType(e) : e \in SeqsUpTo(S, 1, MaxArity) }
OperandTypes == {ScalarType} \cup TuplesOver({ScalarType} \cup TuplesOver({ScalarType}))

\* The operand types of the comparisons in ErrorQueries that compare two
\* tuples with "=", a parenthesised single expression being that expression.
Pair12 == TupleType(<<ScalarType, ScalarType>>)
Pair123 == TupleType(<<Pair12, ScalarType>>)
ErrorQueries ==
    { <<Pair12, ScalarType>>,
      <<Pair123, Pair12>>,
      <<Pair123, ScalarType>>,
      <<Pair123, TupleType(<<Pair123, Pair12>>)>>,
      <<TupleType(<<Pair12, Pair123>>), TupleType(<<Pair12, Pair12>>)>> }

\* The values CompareNulls is given.
Comparands == { NilValue, GoValue("int64", 0), GoValue("int64", 2), GoValue("float64", 5) }

\* The values ConvertToBool is given.
SignedTypes == {"int", "int64", "int32", "int16", "int8"}
UnsignedTypes == {"uint", "uint64", "uint32", "uint16", "uint8"}
FloatTypes == {"float32", "float64"}
Strings == SeqsUpTo(Chars, 0, MaxStr)
Convertibles ==
    { GoValue(t, v) : t \in SignedTypes, v \in MinInt64..MaxInt64 }
      \cup { GoValue(t, v) : t \in UnsignedTypes, v \in 0..MaxUint64 }
      \cup { GoValue(t, v) : t \in FloatTypes, v \in {-3, -1, 0, 1, 3} }
      \cup { GoValue(t, v) : t \in {"time.Duration", "time.Time"}, v \in {-1, 0, 1} }
      \cup { GoValue("bool", v) : v \in {0, 1} }
      \cup { GoValue("string", s) : s \in Strings }
      \cup { NilValue, GoValue("decimal", 7) }

\* A call: the function, its arguments and, once it returned, its result.
Call(fn, args, res) == [fn |-> fn, args |-> args, res |-> res]
NoResult == [none |-> TRUE]

InitNoCall == call = Call("none", <<>>, NoResult)

InitCalls ==
    call \in { Call("ErrIfMismatchedColumns", a, NoResult) :
                 a \in (OperandTypes \X OperandTypes) \cup ErrorQueries }
      \cup { Call("CompareNulls", a, NoResult) : a \in Comparands \X Comparands }
      \cup { Call("ConvertToBool", <<v>>, NoResult) : v \in Convertibles }

Pending(fn) == call.fn = fn /\ call.res = NoResult

CallErrIfMismatchedColumns ==
    /\ Pending("ErrIfMismatchedColumns")
    /\ call' = [call EXCEPT !.res = ErrIfMismatchedColumns(call.args[1], call.args[2])]
    /\ UNCHANGED <<insertVars, sessionVars, cmp, cteVars, indexVars, jsonVars>>

CallCompareNulls ==
    /\ Pending("CompareNulls")
    /\ call' = [call EXCEPT !.res = CompareNulls(call.args[1], call.args[2])]
    /\ UNCHANGED <<insertVars, sessionVars, cmp, cteVars, indexVars, jsonVars>>

CallConvertToBool ==
    /\ Pending("ConvertToBool")
    /\ call' = [call EXCEPT !.res = ConvertToBool(call.args[1])]
    /\ UNCHANGED <<insertVars, sessionVars, cmp, cteVars, indexVars, jsonVars>>

-----------------------------------------------------------------------------
(* The evaluation of a recursive common table expression                   *)
(*   with recursive t (n) as (<seed> union all select <leg> from t         *)
(*                            where n < <below>) ...                       *)
(* The non-recursive leg gives the first working set; the recursive leg is *)
(* evaluated on the working set again and again, its rows becoming the     *)
(* next working set, until it gives no rows or the recursion bound is      *)
(* passed.                                                                 *)

RecursionLimit == 3   \* evaluations of the recursive leg one query may make
MaxSeed == 2          \* rows of the non-recursive leg

CteQuery(seed, leg, below) == [seed |-> seed, leg |-> leg, below |-> below]

\* The recursive legs of the query tests: "select n from t where n < 2",
\* "select n + 1 from t where n < 10" and the like.
RecursiveLegs == {"n", "n + 1"}
CteQueries ==
    { CteQuery(seed, leg, below) : seed \in SeqsUpTo(0..2, 1, MaxSeed),
                                   leg \in RecursiveLegs,
                                   below \in 0..(RecursionLimit + 3) }

\* The rows the recursive leg gives on a working set.
RecursiveLeg(q, working) ==
    LET Below(n) == n < q.below
        kept == SelectSeq(working, Below)
    IN [i \in 1..Len(kept) |-> IF q.leg = "n + 1" THEN kept[i] + 1 ELSE kept[i]]

\* A faulty variant of NextCycle: the evaluations are not counted.
NextCycle_NotCounted(cycle) == cycle

\* The count of evaluations of the recursive leg, after one more.
NextCycle(cycle) == cycle + 1

\* A faulty variant of WorkingSet: the recursive leg sees every row so far.
WorkingSet_AllRows(rows, produced) == rows

\* The working set of the next step: the rows the last step produced, out
\* of all the rows so far.
WorkingSet(rows, produced) == produced

\* rows: the rows of the CTE so far, the non-recursive leg's first.
CteState(q, status, working, cycle, e) ==
    [query |-> q, status |-> status, working |-> working, cycle |-> cycle, err |-> e,
     rows |-> <<>>]

InitNoCte == cte = CteState(CteQuery(<<>>, "none", 0), "none", <<>>, 0, NoErr)

InitCtes == cte \in { CteState(q, "analyzed", <<>>, 0, NoErr) : q \in CteQueries }

\* The non-recursive leg is evaluated into the working set.
CteSeed ==
    /\ cte.status = "analyzed"
    /\ cte' = [cte EXCEPT !.status = "running",
                          !.working = WorkingSet(cte.query.seed, cte.query.seed),
                          !.rows = cte.query.seed]
    /\ UNCHANGED <<insertVars, sessionVars, cmp, typeVars, indexVars, jsonVars>>

\* The recursive leg gives rows within the bound: they are the next working set.
CteRecurse ==
    /\ cte.status = "running"
    /\ RecursiveLeg(cte.query, cte.working) # <<>>
    /\ NextCycle(cte.cycle) <= RecursionLimit
    /\ LET produced == RecursiveLeg(cte.query, cte.working)
       IN cte' = [cte EXCEPT !.working = WorkingSet(cte.rows \o produced, produced),
                             !.cycle = NextCycle(cte.cycle),
                             !.rows = cte.rows \o produced]
    /\ UNCHANGED <<insertVars, sessionVars, cmp, typeVars, indexVars, jsonVars>>

\* The recursive leg gives rows past the bound: the query fails.
CteLimit ==
    /\ cte.status = "running"
    /\ RecursiveLeg(cte.query, cte.working) # <<>>
    /\ NextCycle(cte.cycle) > RecursionLimit
    /\ cte' = [cte EXCEPT !.status = "failed",
                          !.cycle = NextCycle(cte.cycle),
                          !.err = Error("ErrCteRecursionLimitExceeded", "")]
    /\ UNCHANGED <<insertVars, sessionVars, cmp, typeVars, indexVars, jsonVars>>

\* The recursive leg gives no rows: the evaluation is complete.
CteFixpoint ==
    /\ cte.status = "running"
    /\ RecursiveLeg(cte.query, cte.working) = <<>>
    /\ cte' = [cte EXCEPT !.status = "complete", !.working = <<>>]
    /\ UNCHANGED <<insertVars, sessionVars, cmp, typeVars, indexVars, jsonVars>>

-----------------------------------------------------------------------------
(* A table t (i int primary key, v varchar(10)) with a unique index on the *)
(* first n characters of v, and the INSERT statements run against it.  A   *)
(* statement inserts its rows one by one through the table's editor; when  *)
(* a row is refused the statement's changes are discarded.                 *)

MaxPk == 1        \* largest primary key of a generated row
MaxRows == 2      \* rows of a generated INSERT statement
MaxPrefix == 2    \* largest prefix length of the unique index

IndexRow(i, v) == [i |-> i, v |-> v]

\* 'a', 'aa', 'ab' and 'bb'
IndexValues == { <<"a">>, <<"a", "a">>, <<"a", "b">>, <<"b", "b">> }

\* The first n characters of a value.
Prefix_WholeValue(v, n) == v

Prefix(v, n) == SubSeq(v, 1, IF Len(v) < n THEN Len(v) ELSE n)

\* The statements of IndexPrefixQueries against unique index (v(1)):
\*   insert into t values (0, 'aa'), (1, 'ab')
\*   insert into t values (0, 'aa'), (1, 'bb'), (2, 'cc')
IndexPrefixQueries ==
    { <<IndexRow(0, <<"a", "a">>), IndexRow(1, <<"a", "b">>)>>,
      <<IndexRow(0, <<"a", "a">>), IndexRow(1, <<"b", "b">>), IndexRow(2, <<"c", "c">>)>> }

\* The generated statements: up to MaxRows rows, keys ascending.
InsertStatements ==
    { s \in SeqsUpTo({ IndexRow(i, v) : i \in 0..MaxPk, v \in IndexValues }, 1, MaxRows) :
        \A k \in 1..(Len(s) - 1) : s[k].i < s[k + 1].i }
      \cup IndexPrefixQueries

\* A faulty variant of DiscardChanges: the rows inserted before the failure stay.
DiscardChanges_KeepsEdits(committed, edited) == edited

\* The editor discards the changes of a failed statement.
DiscardChanges(committed, edited) == committed

\* The rows of a statement are inserted from row k on into the edited
\* table: a row whose key is taken or whose prefix is taken stops it.
RECURSIVE InsertRowsFrom(_, _, _, _)
InsertRowsFrom(edited, n, stmt, k) ==
    IF k > Len(stmt)
    THEN [rows |-> edited, err |-> NoErr]
    ELSE IF \E r \in edited : r.i = stmt[k].i
         THEN [rows |-> edited, err |-> Error("ErrPrimaryKeyViolation", "")]
         ELSE IF \E r \in edited : Prefix(r.v, n) = Prefix(stmt[k].v, n)
              THEN [rows |-> edited, err |-> Error("ErrUniqueKeyViolation", "")]
              ELSE InsertRowsFrom(edited \cup {stmt[k]}, n, stmt, k + 1)

\* One INSERT statement.
ExecInsert(rows, n, stmt) ==
    LET r == InsertRowsFrom(rows, n, stmt, 1)
    IN IF r.err = NoErr
       THEN r
       ELSE [rows |-> DiscardChanges(rows, r.rows), err |-> r.err]

IndexState(n, rows, held, stmt, e) ==
    [n |-> n, rows |-> rows, before |-> held, stmt |-> stmt, err |-> e]

InitNoIndex == idx = IndexState(0, {}, {}, <<>>, NoErr)

\* The table is created empty, with its index.
InitIndexes == idx \in { IndexState(n, {}, {}, <<>>, NoErr) : n \in 1..MaxPrefix }

\* An INSERT statement is executed.
InsertIntoIndexed ==
    /\ idx.n > 0
    /\ \E stmt \in InsertStatements :
         LET r == ExecInsert(idx.rows, idx.n, stmt)
         IN idx' = IndexState(idx.n, r.rows, idx.rows, stmt, r.err)
    /\ UNCHANGED <<insertVars, sessionVars, cmp, typeVars, cteVars, jsonVars>>

-----------------------------------------------------------------------------
(* JSON documents.  A value is null, a boolean, a number (held in          *)
(* hundredths), a string, an array (a sequence of values) or an object (a  *)
(* function from its keys to values).                                      *)

MaxElems == 2     \* elements of a generated array

JsonNull == [t |-> "NULL", v |-> 0]
JsonBool(b) == [t |-> "BOOLEAN", v |-> b]
JsonNumber(n) == [t |-> "NUMBER", v |-> 100 * n]
JsonHundredths(h) == [t |-> "NUMBER", v |-> h]
JsonString(s) == [t |-> "STRING", v |-> s]
JsonArray(elems) == [t |-> "ARRAY", v |-> elems]
JsonObject(fields) == [t |-> "OBJECT", v |-> fields]

\* The order of the strings in use, as strings.Compare orders them.
StringOrder == <<" ", "A", "B", "C", "a", "b", "c", "x", "y", "z">>
StringRank(s) == CHOOSE i \in 1..Len(StringOrder) : StringOrder[i] = s

\* -1, 0 or 1 for two integers.
CompareInts(a, b) == IF a < b THEN -1 ELSE IF a > b THEN 1 ELSE 0

\* The keys of an object in ascending order.
RECURSIVE SortedKeys(_)
SortedKeys(keys) ==
    IF keys = {}
    THEN <<>>
    ELSE LET first == CHOOSE k \in keys : \A j \in keys : StringRank(k) <= StringRank(j)
         IN <<first>> \o SortedKeys(keys \ {first})

\* A faulty variant of TypePrecedence: objects before arrays.
TypePrecedence_ObjectFirst(t) ==
    CASE t = "BOOLEAN" -> 6
      [] t = "OBJECT" -> 5
      [] t = "ARRAY" -> 4
      [] t = "STRING" -> 3
      [] t = "NUMBER" -> 2
      [] t = "NULL" -> 1

\* The precedence of the JSON types: BOOLEAN, ARRAY, OBJECT, STRING,
\* DOUBLE, NULL, highest first.
TypePrecedence(t) ==
    CASE t = "BOOLEAN" -> 6
      [] t = "ARRAY" -> 5
      [] t = "OBJECT" -> 4
      [] t = "STRING" -> 3
      [] t = "NUMBER" -> 2
      [] t = "NULL" -> 1

\* JSON.Compare of two documents: by type precedence when the types
\* differ, by content when they are the same.  Arrays are compared element
\* by element, then by length; objects by their number of keys, then key
\* by key in ascending order of the keys, each key and then its value.
RECURSIVE compareJSON(_, _)
RECURSIVE compareJSONArray(_, _, _)
RECURSIVE compareJSONObject(_, _, _, _, _)
compareJSON(a, b) ==
    IF a.t # b.t
    THEN CompareInts(TypePrecedence(a.t), TypePrecedence(b.t))
    ELSE CASE a.t = "NULL" -> 0
           [] a.t = "BOOLEAN" -> CompareInts(IF a.v THEN 1 ELSE 0, IF b.v THEN 1 ELSE 0)
           [] a.t = "NUMBER" -> CompareInts(a.v, b.v)
           [] a.t = "STRING" -> CompareInts(StringRank(a.v), StringRank(b.v))
           [] a.t = "ARRAY" -> compareJSONArray(a.v, b.v, 1)
           [] a.t = "OBJECT" ->
                IF Cardinality(DOMAIN a.v) # Cardinality(DOMAIN b.v)
                THEN CompareInts(Cardinality(DOMAIN a.v), Cardinality(DOMAIN b.v))
                ELSE compareJSONObject(a.v, b.v, SortedKeys(DOMAIN a.v),
                                       SortedKeys(DOMAIN b.v), 1)

compareJSONArray(a, b, i) ==
    IF i > Len(a) \/ i > Len(b)
    THEN CompareInts(Len(a), Len(b))
    ELSE LET c == compareJSON(a[i], b[i])
         IN IF c # 0 THEN c ELSE compareJSONArray(a, b, i + 1)

compareJSONObject(a, b, aKeys, bKeys, i) ==
    IF i > Len(aKeys)
    THEN 0
    ELSE LET kc == CompareInts(StringRank(aKeys[i]), StringRank(bKeys[i]))
             vc == compareJSON(a[aKeys[i]], b[bKeys[i]])
         IN IF kc # 0 THEN kc
            ELSE IF vc # 0 THEN vc
            ELSE compareJSONObject(a, b, aKeys, bKeys, i + 1)

\* One case of TestJsonCompare.
JsonCompareTest(left, right, c) == [left |-> left, right |-> right, cmp |-> c]

Obj1(k, x) == JsonObject([j \in {k} |-> x])
Obj2(k1, x1, k2, x2) == JsonObject([j \in {k1, k2} |-> IF j = k1 THEN x1 ELSE x2])

\* The cases of TestJsonCompare whose documents nest at most one level.
TestJsonCompare ==
    { JsonCompareTest(JsonBool(TRUE), JsonArray(<<JsonNumber(0)>>), 1),
      JsonCompareTest(JsonArray(<<JsonNumber(0)>>), Obj1("a", JsonNumber(0)), 1),
      JsonCompareTest(Obj1("a", JsonNumber(0)), JsonString("a"), 1),
      JsonCompareTest(JsonString("a"), JsonNumber(0), 1),
      JsonCompareTest(JsonNumber(0), JsonNull, 1),
      JsonCompareTest(JsonNull, JsonNumber(0), -1),
      JsonCompareTest(JsonNull, JsonNull, 0),
      JsonCompareTest(JsonBool(TRUE), JsonBool(FALSE), 1),
      JsonCompareTest(JsonBool(TRUE), JsonBool(TRUE), 0),
      JsonCompareTest(JsonBool(FALSE), JsonBool(FALSE), 0),
      JsonCompareTest(JsonString("A"), JsonString("B"), -1),
      JsonCompareTest(JsonString("A"), JsonString("A"), 0),
      JsonCompareTest(JsonString("C"), JsonString("B"), 1),
      JsonCompareTest(JsonNumber(0), JsonHundredths(0), 0),
      JsonCompareTest(JsonNumber(0), JsonNumber(-1), 1),
      JsonCompareTest(JsonNumber(0), JsonHundredths(314), -1),
      JsonCompareTest(JsonArray(<<JsonNumber(1), JsonNumber(2)>>),
                      JsonArray(<<JsonNumber(1), JsonNumber(2)>>), 0),
      JsonCompareTest(JsonArray(<<JsonNumber(1), JsonNumber(9)>>),
                      JsonArray(<<JsonNumber(1), JsonNumber(2)>>), 1),
      JsonCompareTest(JsonArray(<<JsonNumber(1), JsonNumber(2)>>),
                      JsonArray(<<JsonNumber(1), JsonNumber(2), JsonNumber(3)>>), -1),
      JsonCompareTest(Obj1("a", JsonNumber(0)), Obj1("a", JsonNumber(0)), 0),
      JsonCompareTest(Obj1("a", JsonNumber(1)), Obj1("a", JsonNumber(0)), 1),
      JsonCompareTest(Obj1("a", JsonNumber(0)),
                      Obj2("a", JsonNumber(0), "b", JsonNumber(1)), -1),
      JsonCompareTest(Obj2("a", JsonNumber(0), "c", JsonNumber(2)),
                      Obj2("a", JsonNumber(0), "b", JsonNumber(1)), 1) }

\* The generated documents: scalars, arrays of scalars, objects of scalars
\* under the keys a and b, and two documents that nest.
JsonScalars ==
    { JsonNull, JsonBool(TRUE), JsonBool(FALSE), JsonNumber(1), JsonNumber(2),
      JsonString("a"), JsonString("b") }
MutationScalars == { JsonNull, JsonNumber(1), JsonNumber(2) }
JsonArraysOf(S) == { JsonArray(e) : e \in SeqsUpTo(S, 0, MaxElems) }
JsonObjectsOf(S) ==
    { JsonObject(f) : f \in UNION { [K -> S] : K \in SUBSET {"a", "b"} } }
NestedDocs ==
    { Obj1("a", Obj1("b", JsonNumber(1))), JsonArray(<<JsonNumber(1), JsonArray(<<JsonNumber(2)>>)>>) }
JsonDocs ==
    MutationScalars \cup JsonArraysOf(MutationScalars) \cup JsonObjectsOf(MutationScalars)
      \cup NestedDocs
ComparedDocs ==
    JsonScalars \cup JsonArraysOf({JsonNull, JsonNumber(1), JsonString("a")})
      \cup JsonObjectsOf({JsonNull, JsonNumber(1)}) \cup NestedDocs

-----------------------------------------------------------------------------
(* JSON paths.  A path is a string, held as the sequence of its            *)
(* characters: '$', then steps ".name", ."name", [n], [last], [last-n].    *)

Quote == "\""
DigitChars == <<"0", "1", "2", "3", "4", "5", "6", "7", "8", "9">>
NameChars ==
    { "a", "b", "c", "d", "f", "g", "l", "o", "r", "s", "t", "u", "x", "y", "z" }
      \cup { DigitChars[i] : i \in 1..10 }

\* The errors of the JSON functions, with the character they point at.
NoJsonError == [msg |-> "", at |-> 0]
JsonError(msg, at) == [msg |-> msg, at |-> at]

\* strings.TrimSpace
RECURSIVE TrimLeft(_)
TrimLeft(s) == IF s # <<>> /\ s[1] = " " THEN TrimLeft(Tail(s)) ELSE s
RECURSIVE TrimRight(_)
TrimRight(s) ==
    IF s # <<>> /\ s[Len(s)] = " " THEN TrimRight(SubSeq(s, 1, Len(s) - 1)) ELSE s
TrimSpace(s) == TrimRight(TrimLeft(s))

\* The characters of s that are no spaces.
RECURSIVE WithoutSpaces(_)
WithoutSpaces(s) ==
    IF s = <<>> THEN <<>>
    ELSE IF s[1] = " " THEN WithoutSpaces(Tail(s))
    ELSE <<s[1]>> \o WithoutSpaces(Tail(s))

\* strconv.Atoi of a string of digits.
IsDigits(s) == s # <<>> /\ \A i \in 1..Len(s) : \E d \in 1..10 : DigitChars[d] = s[i]
DigitValue(c) == (CHOOSE d \in 1..10 : DigitChars[d] = c) - 1
RECURSIVE Atoi(_)
Atoi(s) == IF s = <<>> THEN 0 ELSE 10 * Atoi(SubSeq(s, 1, Len(s) - 1)) + DigitValue(s[Len(s)])

\* The steps of a parsed path.
FieldStep(name) == [k |-> "field", name |-> name, last |-> FALSE, n |-> 0]
IndexStep(last, n) == [k |-> "index", name |-> <<>>, last |-> last, n |-> n]
Parsed(e, steps) == [err |-> e, steps |-> steps]

LastWord == <<"l", "a", "s", "t">>

\* A faulty variant of parseIndex: what is no integer is taken as 0.
parseIndex_NonIntegerIsZero(content, at) ==
    LET c == WithoutSpaces(content)
    IN IF IsDigits(c) THEN Parsed(NoJsonError, <<IndexStep(FALSE, Atoi(c))>>)
       ELSE IF c = LastWord THEN Parsed(NoJsonError, <<IndexStep(TRUE, 0)>>)
       ELSE IF Len(c) > 5 /\ SubSeq(c, 1, 5) = LastWord \o <<"-">>
                 /\ IsDigits(SubSeq(c, 6, Len(c)))
            THEN Parsed(NoJsonError, <<IndexStep(TRUE, Atoi(SubSeq(c, 6, Len(c))))>>)
            ELSE Parsed(NoJsonError, <<IndexStep(FALSE, 0)>>)

\* The index between '[' and ']': an integer, last, or last-n.  at is the
\* position of the first character after '['.
parseIndex(content, at) ==
    LET c == WithoutSpaces(content)
        rest == SubSeq(c, 6, Len(c))
    IN IF IsDigits(c) THEN Parsed(NoJsonError, <<IndexStep(FALSE, Atoi(c))>>)
       ELSE IF c = LastWord THEN Parsed(NoJsonError, <<IndexStep(TRUE, 0)>>)
       ELSE IF Len(c) >= 5 /\ SubSeq(c, 1, 5) = LastWord \o <<"-">>
                 /\ \A i \in 1..Len(rest) : rest[i] # "-"
            THEN IF IsDigits(rest)
                 THEN Parsed(NoJsonError, <<IndexStep(TRUE, Atoi(rest))>>)
                 ELSE Parsed(JsonError("Expected a positive integer after 'last-'", at + 4), <<>>)
            ELSE Parsed(JsonError("Unable to convert to an int", at), <<>>)

\* The index of the first character c of t at or after index i, or 0.
IndexFrom(t, c, i) ==
    IF \E j \in i..Len(t) : t[j] = c
    THEN CHOOSE j \in i..Len(t) : t[j] = c /\ \A h \in i..(j - 1) : t[h] # c
    ELSE 0

\* The index after the run of name characters that starts at index i.
RECURSIVE NameEnd(_, _)
NameEnd(t, i) == IF i <= Len(t) /\ t[i] \in NameChars THEN NameEnd(t, i + 1) ELSE i

\* The steps of the trimmed path t from index i on.  Positions in errors
\* count characters from 0.
RECURSIVE parseSteps(_, _, _)
parseSteps(t, i, steps) ==
    IF i > Len(t) THEN Parsed(NoJsonError, steps)
    ELSE IF t[i] = "."
    THEN IF i = Len(t)
         THEN Parsed(JsonError("Expected field name after '.'", i), <<>>)
         ELSE IF t[i + 1] = Quote
              THEN LET j == IndexFrom(t, Quote, i + 2)
                   IN IF j = 0
                      THEN Parsed(JsonError("'\"' expected", i), <<>>)
                      ELSE parseSteps(t, j + 1,
                                      Append(steps, FieldStep(SubSeq(t, i + 2, j - 1))))
              ELSE LET e == NameEnd(t, i + 1)
                   IN IF e = i + 1
                      THEN Parsed(JsonError("Expected field name after '.'", i), <<>>)
                      ELSE parseSteps(t, e, Append(steps, FieldStep(SubSeq(t, i + 1, e - 1))))
    ELSE IF t[i] = "["
    THEN LET j == IndexFrom(t, "]", i + 1)
             r == parseIndex(SubSeq(t, i + 1, j - 1), i)
         IN IF j = 0
            THEN Parsed(JsonError("Missing ']'", i), <<>>)
            ELSE IF r.err # NoJsonError
                 THEN r
                 ELSE parseSteps(t, j + 1, steps \o r.steps)
    ELSE Parsed(JsonError("Expected '.' or '['", i - 1), <<>>)

\* The path is trimmed, must not be empty and must start with '$'.
parseJsonPath(path) ==
    LET t == TrimSpace(path)
    IN IF t = <<>> THEN Parsed(JsonError("Empty path", 0), <<>>)
       ELSE IF t[1] # "$" THEN Parsed(JsonError("Path must start with '$'", 0), <<>>)
       ELSE parseSteps(t, 2, <<>>)

-----------------------------------------------------------------------------
(* JSON mutations: Set, Insert, Replace and Remove of the value at a path. *)

Mutated(d, changed) == [doc |-> d, changed |-> changed]

\* A faulty variant of AddsWhenAbsent: every mutation adds.
AddsWhenAbsent_Always(mode) == TRUE

\* Set and Insert add what the path does not find.
AddsWhenAbsent(mode) == mode \in {"Set", "Insert"}

\* Set and Replace overwrite what the path finds.
OverwritesWhenPresent(mode) == mode \in {"Set", "Replace"}

\* An object with one field put, and with one field removed.
PutField(obj, name, val) ==
    [j \in DOMAIN obj \cup {name} |-> IF j = name THEN val ELSE obj[j]]
RemoveField(obj, name) == [j \in DOMAIN obj \ {name} |-> obj[j]]

\* An array with one element put, and with one element removed.
PutElem(arr, i, val) == [arr EXCEPT ![i] = val]
RemoveElem(arr, i) == SubSeq(arr, 1, i - 1) \o SubSeq(arr, i + 1, Len(arr))

\* The name of a field step as a key: the keys in use are one character long.
KeyOf(name) == IF Len(name) = 1 THEN name[1] ELSE "?"

\* The mutation of document d at the steps from index k on.
RECURSIVE mutate(_, _, _, _, _)
mutate(d, steps, k, val, mode) ==
    IF k > Len(steps)
    THEN IF OverwritesWhenPresent(mode) THEN Mutated(val, TRUE) ELSE Mutated(d, FALSE)
    ELSE
    LET s == steps[k]
        isLast == k = Len(steps)
        \* a document that is no array is indexed as the array of itself
        arr == IF d.t = "ARRAY" THEN d.v ELSE <<d>>
        i == IF s.last THEN (IF arr = <<>> THEN 0 ELSE Len(arr) - 1) - s.n ELSE s.n
        inner == IF s.k = "field"
                 THEN mutate(d.v[KeyOf(s.name)], steps, k + 1, val, mode)
                 ELSE mutate(arr[i + 1], steps, k + 1, val, mode)
    IN
    IF s.k = "field"
    THEN IF d.t # "OBJECT" THEN Mutated(d, FALSE)
         ELSE IF KeyOf(s.name) \in DOMAIN d.v
         THEN IF isLast /\ mode = "Remove"
              THEN Mutated(JsonObject(RemoveField(d.v, KeyOf(s.name))), TRUE)
              ELSE IF isLast /\ ~OverwritesWhenPresent(mode) THEN Mutated(d, FALSE)
              ELSE IF inner.changed
                   THEN Mutated(JsonObject(PutField(d.v, KeyOf(s.name), inner.doc)), TRUE)
                   ELSE Mutated(d, FALSE)
         ELSE IF isLast /\ AddsWhenAbsent(mode)
              THEN Mutated(JsonObject(PutField(d.v, KeyOf(s.name), val)), TRUE)
              ELSE Mutated(d, FALSE)
    ELSE IF i >= 0 /\ i < Len(arr)
         THEN IF d.t # "ARRAY"
              THEN IF mode = "Remove" THEN Mutated(d, FALSE) ELSE inner
              ELSE IF isLast /\ mode = "Remove"
                   THEN Mutated(JsonArray(RemoveElem(arr, i + 1)), TRUE)
                   ELSE IF inner.changed
                        THEN Mutated(JsonArray(PutElem(arr, i + 1, inner.doc)), TRUE)
                        ELSE Mutated(d, FALSE)
         ELSE IF ~isLast THEN Mutated(d, FALSE)
         ELSE IF i < 0
              THEN IF d.t = "ARRAY"
                   THEN IF mode = "Set" /\ arr # <<>>
                        THEN Mutated(JsonArray(PutElem(arr, 1, val)), TRUE)
                        ELSE Mutated(d, FALSE)
                   ELSE IF AddsWhenAbsent(mode)
                        THEN Mutated(JsonArray(<<val>> \o arr), TRUE)
                        ELSE Mutated(d, FALSE)
              ELSE IF AddsWhenAbsent(mode)
                   THEN Mutated(JsonArray(arr \o <<val>>), TRUE)
                   ELSE Mutated(d, FALSE)

\* What a mutation returns: the new document, the flag and the error, and
\* the document it was called on as it is after the call.
JsonNil == [t |-> "nil", v |-> 0]
MutationResult(recv, out, changed, e) ==
    [recv |-> recv, out |-> out, changed |-> changed, err |-> e]

\* A faulty variant of Receiver: the change is written into the receiver.
Receiver_WrittenInPlace(d, out) == out

\* The receiver after the call: the mutation works on a copy.
Receiver(d, out) == d

\* doc.Set, doc.Insert, doc.Replace and doc.Remove.
unmarshallAndMutate(d, path, val, mode) ==
    LET p == parseJsonPath(path)
        m == mutate(d, p.steps, 1, val, mode)
    IN IF p.err # NoJsonError
       THEN MutationResult(d, JsonNil, FALSE, p.err)
       ELSE IF p.steps = <<>> /\ mode = "Remove"
            THEN MutationResult(d, JsonNil, FALSE,
                     JsonError("The path expression '$' is not allowed in this context.", 0))
            ELSE MutationResult(Receiver(d, m.doc), m.doc, m.changed, NoJsonError)

-----------------------------------------------------------------------------
(* The documents, paths and values the JSON functions are called with.     *)

Root == <<"$">>
Dot(name) == <<".">> \o name
DotQuoted(name) == <<".", Quote>> \o name \o <<Quote>>
At(content) == <<"[">> \o content \o <<"]">>

Arr123 == JsonArray(<<JsonNumber(1), JsonNumber(2), JsonNumber(3)>>)
ObjA1 == Obj1("a", JsonNumber(1))
ObjA1B2 == Obj2("a", JsonNumber(1), "b", JsonNumber(2))
ObjC3 == Obj1("c", JsonNumber(3))
EmptyObject == JsonObject(<<>>)
EmptyArray == JsonArray(<<>>)
LastMinus23 == Root \o At(LastWord \o <<"-", "2", "3">>)
DeepPath == Root \o Dot(<<"a">>) \o Dot(<<"b">>) \o Dot(<<"c">>)

\* One case of the mutation tests.
JsonMutationTest(d, path, value, resultVal, changed) ==
    [doc |-> d, path |-> path, value |-> value, resultVal |-> resultVal,
     changed |-> changed]

JsonSetTests ==
    { JsonMutationTest(ObjA1B2, Root, ObjC3, ObjC3, TRUE),
      JsonMutationTest(ObjA1B2, <<" ", " ", " ">> \o Root \o <<" ", " ", " ">>, ObjC3, ObjC3, TRUE),
      JsonMutationTest(Arr123, Root \o At(<<"1">>), JsonNumber(42),
          JsonArray(<<JsonNumber(1), JsonNumber(42), JsonNumber(3)>>), TRUE),
      JsonMutationTest(Arr123, Root \o At(<<"2", "3">>), JsonNumber(42),
          JsonArray(<<JsonNumber(1), JsonNumber(2), JsonNumber(3), JsonNumber(42)>>), TRUE),
      JsonMutationTest(Arr123, Root \o At(LastWord), JsonNumber(42),
          JsonArray(<<JsonNumber(1), JsonNumber(2), JsonNumber(42)>>), TRUE),
      JsonMutationTest(Arr123, LastMinus23, JsonNumber(42),
          JsonArray(<<JsonNumber(42), JsonNumber(2), JsonNumber(3)>>), TRUE),
      JsonMutationTest(Arr123,
          Root \o At(<<" ", " ", " ">> \o LastWord \o <<" ", "-", " ", " ", " ", " ", "1">>),
          JsonNumber(42),
          JsonArray(<<JsonNumber(1), JsonNumber(42), JsonNumber(3)>>), TRUE),
      JsonMutationTest(EmptyArray, Root \o At(LastWord), JsonNumber(42),
          JsonArray(<<JsonNumber(42)>>), TRUE),
      JsonMutationTest(ObjA1, Root \o At(<<"0">>), JsonNumber(42), JsonNumber(42), TRUE),
      JsonMutationTest(ObjA1, LastMinus23, JsonNumber(42),
          JsonArray(<<JsonNumber(42), ObjA1>>), TRUE),
      JsonMutationTest(ObjA1, Root \o At(<<"5", "1">>), JsonNumber(42),
          JsonArray(<<ObjA1, JsonNumber(42)>>), TRUE),
      JsonMutationTest(JsonNumber(17), Root \o At(<<"5", "1">>), JsonNumber(42),
          JsonArray(<<JsonNumber(17), JsonNumber(42)>>), TRUE),
      JsonMutationTest(JsonNumber(17), Root \o At(<<"0">>), JsonNumber(42), JsonNumber(42), TRUE),
      JsonMutationTest(JsonNumber(17), LastMinus23, JsonNumber(42),
          JsonArray(<<JsonNumber(42), JsonNumber(17)>>), TRUE),
      JsonMutationTest(ObjA1, Root \o Dot(<<"a">>), JsonNumber(42),
          Obj1("a", JsonNumber(42)), TRUE),
      JsonMutationTest(ObjA1, Root \o Dot(<<"b">>), JsonNumber(42),
          Obj2("a", JsonNumber(1), "b", JsonNumber(42)), TRUE),
      JsonMutationTest(Obj1("a", EmptyObject), Root \o DotQuoted(<<"a">>), JsonNumber(42),
          Obj1("a", JsonNumber(42)), TRUE),
      JsonMutationTest(Arr123, Root \o Dot(<<"a">>), JsonNumber(42), Arr123, FALSE),
      JsonMutationTest(JsonArray(<<JsonNumber(1), JsonArray(<<JsonNumber(2)>>)>>),
          Root \o At(<<"1">>) \o At(<<"0">>), JsonNumber(42),
          JsonArray(<<JsonNumber(1), JsonArray(<<JsonNumber(42)>>)>>), TRUE),
      JsonMutationTest(Obj1("a", Obj1("b", JsonNumber(1))), Root \o Dot(<<"a">>) \o Dot(<<"b">>),
          JsonNumber(42), Obj1("a", Obj1("b", JsonNumber(42))), TRUE),
      JsonMutationTest(EmptyObject, DeepPath, JsonNumber(42), EmptyObject, FALSE),
      JsonMutationTest(JsonNull, Root, Obj1("a", JsonNumber(42)), Obj1("a", JsonNumber(42)), TRUE) }

JsonInsertTests ==
    { JsonMutationTest(ObjA1B2, Root, ObjC3, ObjA1B2, FALSE),
      JsonMutationTest(Arr123, Root \o At(<<"1">>), JsonNumber(42), Arr123, FALSE),
      JsonMutationTest(Arr123, Root \o At(<<"2", "3">>), JsonNumber(42),
          JsonArray(<<JsonNumber(1), JsonNumber(2), JsonNumber(3), JsonNumber(42)>>), TRUE),
      JsonMutationTest(Arr123, Root \o At(LastWord), JsonNumber(42), Arr123, FALSE),
      JsonMutationTest(EmptyArray, Root \o At(LastWord), JsonNumber(42),
          JsonArray(<<JsonNumber(42)>>), TRUE),
      JsonMutationTest(ObjA1, Root \o At(<<"0">>), JsonNumber(42), ObjA1, FALSE),
      JsonMutationTest(ObjA1, LastMinus23, JsonNumber(42),
          JsonArray(<<JsonNumber(42), ObjA1>>), TRUE),
      JsonMutationTest(ObjA1, Root \o At(<<"5", "1">>), JsonNumber(42),
          JsonArray(<<ObjA1, JsonNumber(42)>>), TRUE),
      JsonMutationTest(JsonNumber(17), Root \o At(<<"5", "1">>), JsonNumber(42),
          JsonArray(<<JsonNumber(17), JsonNumber(42)>>), TRUE),
      JsonMutationTest(JsonNumber(17), Root \o At(<<"0">>), JsonNumber(42), JsonNumber(17), FALSE),
      JsonMutationTest(JsonNumber(17), LastMinus23, JsonNumber(42),
          JsonArray(<<JsonNumber(42), JsonNumber(17)>>), TRUE),
      JsonMutationTest(ObjA1, Root \o Dot(<<"a">>), JsonNumber(42), ObjA1, FALSE),
      JsonMutationTest(ObjA1, Root \o Dot(<<"b">>), JsonNumber(42),
          Obj2("a", JsonNumber(1), "b", JsonNumber(42)), TRUE),
      JsonMutationTest(Obj1("a", EmptyObject), Root \o DotQuoted(<<"a">>), JsonNumber(42),
          Obj1("a", EmptyObject), FALSE),
      JsonMutationTest(Arr123, Root \o Dot(<<"a">>), JsonNumber(42), Arr123, FALSE),
      JsonMutationTest(EmptyObject, DeepPath, JsonNumber(42), EmptyObject, FALSE) }

JsonRemoveTests ==
    { JsonMutationTest(Arr123, Root \o At(<<"1">>), JsonNull,
          JsonArray(<<JsonNumber(1), JsonNumber(3)>>), TRUE),
      JsonMutationTest(Arr123, Root \o At(<<"2">>), JsonNull,
          JsonArray(<<JsonNumber(1), JsonNumber(2)>>), TRUE),
      JsonMutationTest(Arr123, Root \o At(<<"2", "3">>), JsonNull, Arr123, FALSE),
      JsonMutationTest(Arr123, Root \o At(LastWord), JsonNull,
          JsonArray(<<JsonNumber(1), JsonNumber(2)>>), TRUE),
      JsonMutationTest(Arr123, Root \o At(LastWord \o <<"-", "0">>), JsonNull,
          JsonArray(<<JsonNumber(1), JsonNumber(2)>>), TRUE),
      JsonMutationTest(Arr123, LastMinus23, JsonNull, Arr123, FALSE),
      JsonMutationTest(EmptyArray, Root \o At(LastWord), JsonNull, EmptyArray, FALSE),
      JsonMutationTest(ObjA1, Root \o At(<<"0">>), JsonNull, ObjA1, FALSE),
      JsonMutationTest(JsonNumber(17), Root \o At(<<"0">>), JsonNull, JsonNumber(17), FALSE),
      JsonMutationTest(ObjA1B2, Root \o Dot(<<"a">>), JsonNull, Obj1("b", JsonNumber(2)), TRUE),
      JsonMutationTest(ObjA1, Root \o Dot(<<"b">>), JsonNull, ObjA1, FALSE) }

JsonReplaceTests ==
    { JsonMutationTest(ObjA1B2, Root, ObjC3, ObjC3, TRUE),
      JsonMutationTest(Arr123, Root \o At(<<"1">>), JsonNumber(42),
          JsonArray(<<JsonNumber(1), JsonNumber(42), JsonNumber(3)>>), TRUE),
      JsonMutationTest(Arr123, Root \o At(<<"2", "3">>), JsonNumber(42), Arr123, FALSE),
      JsonMutationTest(Arr123, Root \o At(LastWord), JsonNumber(42),
          JsonArray(<<JsonNumber(1), JsonNumber(2), JsonNumber(42)>>), TRUE),
      JsonMutationTest(Arr123, LastMinus23, JsonNumber(42), Arr123, FALSE),
      JsonMutationTest(EmptyArray, Root \o At(<<"0">>), JsonNumber(42), EmptyArray, FALSE),
      JsonMutationTest(ObjA1, Root \o At(<<"0">>), JsonNumber(42), JsonNumber(42), TRUE),
      JsonMutationTest(ObjA1, Root \o At(LastWord), JsonNumber(42), JsonNumber(42), TRUE),
      JsonMutationTest(ObjA1, LastMinus23, JsonNumber(42), ObjA1, FALSE),
      JsonMutationTest(ObjA1, Root \o At(<<"5", "1">>), JsonNumber(42), ObjA1, FALSE),
      JsonMutationTest(JsonNumber(17), Root \o At(<<"5", "1">>), JsonNumber(42), JsonNumber(17), FALSE),
      JsonMutationTest(JsonNumber(17), Root \o At(<<"0">>), JsonNumber(42), JsonNumber(42), TRUE),
      JsonMutationTest(JsonNumber(17), LastMinus23, JsonNumber(42), JsonNumber(17), FALSE),
      JsonMutationTest(ObjA1, Root \o Dot(<<"a">>), JsonNumber(42),
          Obj1("a", JsonNumber(42)), TRUE),
      JsonMutationTest(ObjA1, Root \o Dot(<<"b">>), JsonNumber(42), ObjA1, FALSE) }

\* One case of the path tests: the message and the character it points at.
ParseErrTest(path, msg, at) == [path |-> path, msg |-> msg, at |-> at]

JsonPathParseErrTests ==
    { ParseErrTest(<<>>, "Empty path", 0),
      ParseErrTest(<<"b", "o", "g", "u", "s">>, "Path must start with '$'", 0),
      ParseErrTest(Root \o <<".">>, "Expected field name after '.'", 2),
      ParseErrTest(<<"$", "f", "u", ".", "b", "a", "r">>, "Expected '.' or '['", 1),
      ParseErrTest(Root \o DotQuoted(<<"a">>) \o <<".", Quote, "b">>, "'\"' expected", 6),
      ParseErrTest(<<"$", ".", "a", "@", "<", ">", "b", "c">>, "Expected '.' or '['", 3),
      ParseErrTest(Root \o At(<<"a", "b", "c", "d">>), "Unable to convert to an int", 2),
      ParseErrTest(Root \o At(LastWord \o <<"-", "a", "b", "c", "d">>),
          "Expected a positive integer after 'last-'", 6),
      ParseErrTest(Root \o At(LastWord \o <<"-", "a", "b", "c", "d", "-", "x", "y", "z">>),
          "Unable to convert to an int", 2) }

\* The document of TestJsonPathErrors.
PathErrorsDoc == Obj2("a", Obj1("b", JsonNumber(2)), "c", Arr123)

\* A path and what it is by construction: the root, a field of the
\* document (name), an index, or one of the malformed kinds.
PathInput(path, why, name) == [path |-> path, why |-> why, name |-> name]

WellFormedPaths ==
    { PathInput(Root, "root", ""),
      PathInput(<<" ">> \o Root \o <<" ">>, "root", ""),
      PathInput(Root \o Dot(<<"a">>), "field", "a"),
      PathInput(Root \o Dot(<<"b">>), "field", "b"),
      PathInput(Root \o DotQuoted(<<"a">>), "field", "a"),
      PathInput(<<" ">> \o Root \o DotQuoted(<<"b">>), "field", "b"),
      PathInput(Root \o At(<<"0">>), "index", ""),
      PathInput(Root \o At(<<"1">>), "index", ""),
      PathInput(Root \o At(<<"5">>), "index", ""),
      PathInput(Root \o At(LastWord), "index", ""),
      PathInput(Root \o Dot(<<"a">>) \o Dot(<<"b">>), "nested", ""),
      PathInput(Root \o At(<<"1">>) \o At(<<"0">>), "nested", "") }

PathPrefixes == { Root, Root \o Dot(<<"a">>), Root \o At(<<"0">>), <<" ">> \o Root }

MalformedPaths ==
    { PathInput(p, "empty", "") : p \in { <<>>, <<" ">>, <<" ", " ">> } }
      \cup { PathInput(p, "no $", "") :
               p \in { <<"a">>, <<".", "a">>, <<"a", "$">>, <<"[", "0", "]">>, <<" ", ".">> } }
      \cup { PathInput(p \o <<".">>, "no field name", "") : p \in PathPrefixes }
      \cup { PathInput(p \o <<".">> \o Dot(<<"a">>), "no field name", "") : p \in PathPrefixes }
      \cup { PathInput(p \o <<".", Quote>> \o s, "unterminated quote", "") :
               p \in PathPrefixes, s \in { <<>>, <<"a">>, <<"a", ".", "b">> } }
      \cup { PathInput(p \o At(s), "non-integer index", "") :
               p \in PathPrefixes,
               s \in { <<"a">>, <<"1", "a">>, <<>>, LastWord \o <<"-">>, LastWord \o <<"-", "a">>,
                       LastWord \o <<"1">> } }

TestPaths ==
    { PathInput(t.path, "test", "") : t \in JsonPathParseErrTests }

TestCalls ==
    { [doc |-> t.doc, path |-> t.path, value |-> t.value] :
        t \in JsonSetTests \cup JsonInsertTests \cup JsonRemoveTests \cup JsonReplaceTests }

\* A call of a JSON function: the function, the document it is called on
\* as it is now (recv) and as it was when called (in), the arguments, and
\* what was returned.
JsonCall(d, p, val) ==
    [op |-> "none", recv |-> d, in |-> d, path |-> p.path, why |-> p.why,
     name |-> p.name, val |-> val, out |-> JsonNil, changed |-> FALSE,
     err |-> NoJsonError, cmp |-> 0]

InitNoJson == doc = JsonCall(JsonNil, PathInput(<<>>, "none", ""), JsonNil)

InitJsonCalls ==
    doc \in { JsonCall(d, p, val) : d \in JsonDocs, p \in WellFormedPaths,
                                    val \in { JsonNumber(42), JsonNumber(1) } }
      \cup { JsonCall(PathErrorsDoc, p, Obj1("a", JsonNumber(42))) :
               p \in MalformedPaths \cup TestPaths }
      \cup { JsonCall(c.doc, PathInput(c.path, "test", ""), c.value) : c \in TestCalls }
      \cup { JsonCall(a, PathInput(<<>>, "compare", ""), b) :
               a \in ComparedDocs, b \in ComparedDocs }
      \cup { JsonCall(t.left, PathInput(<<>>, "compare", ""), t.right) : t \in TestJsonCompare }

\* doc.Set, doc.Insert, doc.Replace or doc.Remove is called.
Mutation(mode) ==
    /\ doc.op = "none"
    /\ doc.why \notin {"none", "compare"}
    /\ LET r == unmarshallAndMutate(doc.recv, doc.path, doc.val, mode)
       IN doc' = [doc EXCEPT !.op = mode, !.recv = r.recv, !.out = r.out,
                             !.changed = r.changed, !.err = r.err]
    /\ UNCHANGED <<insertVars, sessionVars, cmp, typeVars, cteVars, indexVars>>

JsonSet == Mutation("Set")
JsonInsert == Mutation("Insert")
JsonReplace == Mutation("Replace")
JsonRemove == Mutation("Remove")

\* JSON.Compare is called.
JsonCompare ==
    /\ doc.op = "none"
    /\ doc.why = "compare"
    /\ doc' = [doc EXCEPT !.op = "Compare", !.cmp = compareJSON(doc.in, doc.val)]
    /\ UNCHANGED <<insertVars, sessionVars, cmp, typeVars, cteVars, indexVars>>

-----------------------------------------------------------------------------
(* JSON.Compare on operands that may be SQL NULL: CompareNulls decides when *)
(* either operand is nil, the documents are compared otherwise.            *)

CompareResult(c, e) == [cmp |-> c, err |-> e]

JsonTypeCompare(a, b) ==
    LET nulls == CompareNulls(a, b)
    IN IF nulls.isNull THEN CompareResult(nulls.order, NoErr)
                       ELSE CompareResult(compareJSON(a, b), NoErr)

\* TestJsonCompareNulls, {"key": "value"} being an object of one string.
TestJsonCompareNulls ==
    { JsonCompareTest(NilValue, Obj1("a", JsonString("a")), 1),
      JsonCompareTest(Obj1("a", JsonString("a")), NilValue, -1),
      JsonCompareTest(NilValue, NilValue, 0),
      JsonCompareTest(NilValue, JsonNull, 1),
      JsonCompareTest(JsonNull, NilValue, -1) }

\* The operands of JSON.Compare: SQL NULL and documents.
NullableDocs == {NilValue} \cup JsonScalars \cup { Obj1("a", JsonString("a")), EmptyArray }

InitNullableCalls ==
    call \in { Call("JSON.Compare", <<a, b>>, NoResult) : a \in NullableDocs, b \in NullableDocs }

CallJsonTypeCompare ==
    /\ Pending("JSON.Compare")
    /\ call' = [call EXCEPT !.res = JsonTypeCompare(call.args[1], call.args[2])]
    /\ UNCHANGED <<insertVars, sessionVars, cmp, cteVars, indexVars, jsonVars>>

-----------------------------------------------------------------------------
(* ST_AREA and the names of the function expressions.  Coordinates are     *)
(* whole numbers; an area, a float64, holds val / 2 like every float64 of  *)
(* the model.                                                              *)

MaxCoord == 1     \* largest coordinate of a generated point

Point(x, y) == [X |-> x, Y |-> y]
LineString(points) == [Points |-> points]
Polygon(lines) == GoValue("Polygon", lines)

\* The loop of calculateArea from index i on: the sum of
\* p1.X*p2.Y - p1.Y*p2.X over the consecutive points.
RECURSIVE shoelace(_, _)
shoelace(points, i) ==
    IF i > Len(points) - 1
    THEN 0
    ELSE points[i].X * points[i + 1].Y - points[i].Y * points[i + 1].X
           + shoelace(points, i + 1)

\* A faulty variant of calculateArea: the sign of the sum is kept.
calculateArea_Signed(l) == shoelace(l.Points, 1)

\* calculateArea: area / 2 as a float64, that is the sum without its sign
\* as the float's val.
calculateArea(l) ==
    LET area == shoelace(l.Points, 1)
    IN IF area < 0 THEN -area ELSE area

\* The loop of Area.Eval over the lines from index i on.
RECURSIVE totalArea(_, _)
totalArea(lines, i) ==
    IF i > Len(lines)
    THEN 0
    ELSE (IF i # 1 THEN -calculateArea(lines[i]) ELSE calculateArea(lines[i]))
           + totalArea(lines, i + 1)

EvalResult(v, e) == [value |-> v, err |-> e]

\* Area.Eval, c being what the argument evaluated to.
AreaEval(c) ==
    IF c.err
    THEN EvalResult(NilValue, Error("child", ""))
    ELSE IF c.value.type = "nil"
    THEN EvalResult(NilValue, NoErr)
    ELSE IF c.value.type # "Polygon"
    THEN EvalResult(NilValue, Error("ErrInvalidAreaArgument", c.value.type))
    ELSE EvalResult(GoValue("float64", totalArea(c.value.val, 1)), NoErr)

\* polygon_table: POLYGON((0 0,0 1,1 1,0 0)) and the same with itself as hole.
Ring0011 == LineString(<<Point(0, 0), Point(0, 1), Point(1, 1), Point(0, 0)>>)
PolygonTable == <<Polygon(<<Ring0011>>), Polygon(<<Ring0011, Ring0011>>)>>

\* SELECT ST_AREA(p) from polygon_table: 0.5 and 0.0.
SpatialQueryTests == <<GoValue("float64", 1), GoValue("float64", 0)>>

\* Rings: three points of the grid and the first one again.
GridPoints == { Point(x, y) : x \in 0..MaxCoord, y \in 0..MaxCoord }
Rings == { LineString(<<a, b, c, a>>) : a \in GridPoints, b \in GridPoints, c \in GridPoints }
HoleRings == { l \in Rings : l.Points[1] = Point(0, 0) }
Polygons ==
    { Polygon(<<l>>) : l \in Rings } \cup { Polygon(<<l, h>>) : l \in Rings, h \in HoleRings }
      \cup { Polygon(<<Ring0011, h, h>>) : h \in HoleRings }

\* What the argument of ST_AREA evaluates to.
AreaArguments ==
    { ChildOk(p) : p \in Polygons }
      \cup { ChildOk(NilValue), ChildErr,
             ChildOk(GoValue("Point", <<Point(1, 1)>>)),
             ChildOk(GoValue("LineString", <<Ring0011>>)),
             ChildOk(GoValue("string", <<>>)) }

\* The function expressions and the SQL name each is called by.
FunctionExpressions ==
    { "RowCount", "LastInsertId", "FoundRows", "ConnectionID", "User", "CurrentUser", "Area" }

\* FunctionName() of each function expression; a NoArgFunc reports the name
\* it was made with.
FunctionName(f) ==
    CASE f = "RowCount" -> "row_count"
      [] f = "LastInsertId" -> "last_insert_id"
      [] f = "FoundRows" -> "found_rows"
      [] f = "ConnectionID" -> "connection_id"
      [] f = "User" -> "user"
      [] f = "CurrentUser" -> "current_user"
      [] f = "Area" -> "st_srid"

\* String() of each function expression, up to the parenthesis.
StringName(f) ==
    CASE f = "RowCount" -> "ROW_COUNT"
      [] f = "LastInsertId" -> "LAST_INSERT_ID"
      [] f = "FoundRows" -> "FOUND_ROWS"
      [] f = "ConnectionID" -> "connection_id"
      [] f = "User" -> "user"
      [] f = "CurrentUser" -> "current_user"
      [] f = "Area" -> "ST_AREA"

\* strings.ToLower over the names of the functions.
LowerName(s) ==
    CASE s = "ROW_COUNT" -> "row_count"
      [] s = "LAST_INSERT_ID" -> "last_insert_id"
      [] s = "FOUND_ROWS" -> "found_rows"
      [] s = "ST_AREA" -> "st_area"
      [] s = "ST_SRID" -> "st_srid"
      [] OTHER -> s

InitFunctionCalls ==
    call \in { Call("ST_AREA", <<c>>, NoResult) : c \in AreaArguments }
      \cup { Call("FunctionName", <<f>>, NoResult) : f \in FunctionExpressions }

CallArea ==
    /\ Pending("ST_AREA")
    /\ call' = [call EXCEPT !.res = AreaEval(call.args[1])]
    /\ UNCHANGED <<insertVars, sessionVars, cmp, cteVars, indexVars, jsonVars>>

CallFunctionName ==
    /\ Pending("FunctionName")
    /\ call' = [call EXCEPT !.res = [name |-> FunctionName(call.args[1]),
                                     string |-> StringName(call.args[1])]]
    /\ UNCHANGED <<insertVars, sessionVars, cmp, cteVars, indexVars, jsonVars>>

-----------------------------------------------------------------------------

\* Nothing is in hand in the other parts of the engine.
InitElsewhere == InitNoCall /\ InitNoCte /\ InitNoIndex /\ InitNoJson

-----------------------------------------------------------------------------
(* The inputs: a destination table and a parsed INSERT. *)

Table(schema, resolved, insertable, replaceable, updatable) ==
    [name |-> "t", schema |-> schema, Resolved |-> resolved, Insertable |-> insertable,
     Replaceable |-> replaceable, Updatable |-> updatable]

\* INSERT ... VALUES of every number of tuples of every length.
ValuesNodes == { ValuesNode(tp) : tp \in SeqsUpTo(0..MaxCols, 1, MaxTuples) }

\* INSERT ... VALUES of one tuple.
OneTupleNodes == { ValuesNode(<<k>>) : k \in 0..MaxCols }

SelectNodes == { SelectNode(w, c) : w \in 1..(MaxCols + 1), c \in BOOLEAN }

\* The sources of an INSERT into a table of n columns: one value tuple, a
\* SELECT, bare or under an Exchange, LOAD DATA, or a trigger executor.
Sources(n) ==
    OneTupleNodes \cup SelectNodes
      \cup { ExchangeNode(c) : c \in SelectNodes }
      \cup { LoadDataNode(k, n) : k \in 0..MaxCols }
      \cup { TriggerExecutorNode(n) }

ColumnLists == SeqsUpTo(ListNames, 0, MaxCols)

NullableSchemas ==
    { [k \in 1..n |-> Col(SchemaNames[k], TRUE, FALSE, FALSE, FALSE)] : n \in 1..MaxCols }

\* Every column list over every destination schema, from every kind of source.
InitColumns ==
    /\ table \in { Table(s, TRUE, TRUE, TRUE, TRUE) : s \in Schemas }
    /\ node \in { InsertInto(cl, src, FALSE, 0) :
                    cl \in ColumnLists, src \in Sources(Len(table.schema)) }

\* Every list of value tuples, bare or under an Exchange, with every column
\* list, into a table of nullable columns.
InitValues ==
    /\ table \in { Table(s, TRUE, TRUE, TRUE, TRUE) : s \in NullableSchemas }
    /\ node \in { InsertInto(cl, src, FALSE, 0) :
                    cl \in ColumnLists,
                    src \in ValuesNodes \cup { ExchangeNode(c) : c \in ValuesNodes } }

\* Every kind of statement and every set of capabilities, for INSERT ...
\* VALUES of one full tuple into a table of nullable columns.
InitCapabilities ==
    /\ table \in { Table(s, rs, ins, rp, up) :
                     s \in NullableSchemas, rs \in BOOLEAN, ins \in BOOLEAN,
                     rp \in BOOLEAN, up \in BOOLEAN }
    /\ node \in { InsertInto(cl, ValuesNode(<<Len(table.schema)>>), rp, od) :
                    cl \in { <<>>, [k \in 1..Len(table.schema) |-> SchemaNames[k]] },
                    rp \in BOOLEAN, od \in 0..1 }

Init ==
    /\ InitColumns \/ InitValues \/ InitCapabilities
    /\ before = node
    /\ given = node
    /\ rule = "none"
    /\ tid = "none"
    /\ err = NoErr
    /\ InitSessions
    /\ InitNoComparison
    /\ InitElsewhere

\* The number of projections wrapped around a source.
RECURSIVE Wraps(_)
Wraps(n) == IF n.kind = "Project" THEN 1 + Wraps(n.child) ELSE 0

\* A rule is applied to the current plan; analysis stops at the first error.
Apply(name, r) ==
    /\ err = NoErr
    /\ before' = node
    /\ given' = r.arg
    /\ node' = IF r.err = NoErr THEN r.node ELSE r.arg
    /\ rule' = name
    /\ tid' = r.tid
    /\ err' = r.err
    /\ UNCHANGED table
    /\ UNCHANGED <<sessionVars, cmp, typeVars, cteVars, indexVars, jsonVars>>

SetInsertColumns == Apply("setInsertColumns", setInsertColumns(node, table))

\* resolveInsertRows runs once the destination is resolved.
ResolveInsertRows ==
    /\ table.Resolved
    /\ Wraps(node.Source) < MaxWraps
    /\ Apply("resolveInsertRows", resolveInsertRows(node, table))

ResolvePreparedInsert == Apply("resolvePreparedInsert", resolvePreparedInsert(node, table))

Next ==
    \/ SetInsertColumns
    \/ ResolveInsertRows
    \/ ResolvePreparedInsert

Spec == Init /\ [][Next]_vars

-----------------------------------------------------------------------------
(* The sessions of one server, evaluating concurrently. *)

\* One INSERT, left as parsed.
InitOneInsert ==
    /\ table = Table(<<Col("a", TRUE, FALSE, FALSE, FALSE)>>, TRUE, TRUE, TRUE, TRUE)
    /\ node = InsertInto(<<>>, ValuesNode(<<1>>), FALSE, 0)
    /\ before = node
    /\ given = node
    /\ rule = "none"
    /\ tid = "none"
    /\ err = NoErr

InitSessionsOnly == InitOneInsert /\ InitSessions /\ InitNoComparison /\ InitElsewhere

NextSessions ==
    \/ \E s \in Sessions : RunStatement(s)
    \/ \E s \in Sessions : EvalRowCount(s)
    \/ \E s \in Sessions : EvalFoundRows(s)
    \/ \E s \in Sessions : EvalLastInsertId(s)
    \/ \E s \in Sessions : EvalChild(s)
    \/ \E s \in Sessions : EvalLastInsertIdExprError(s)
    \/ \E s \in Sessions : EvalLastInsertIdExprPanic(s)
    \/ \E s \in Sessions : EvalLastInsertIdExpr(s)

SpecSessions == InitSessionsOnly /\ [][NextSessions]_vars

-----------------------------------------------------------------------------
(* IN and NOT IN comparisons, evaluated one at a time. *)

InitComparisonsOnly ==
    /\ InitOneInsert
    /\ InitSessions
    /\ InitComparisons \/ InitNoComparison
    /\ InitElsewhere

NextComparisons ==
    \/ LoadQueryTest
    \/ EvalIn
    \/ EvalNotIn

SpecComparisons == InitComparisonsOnly /\ [][NextComparisons]_vars

-----------------------------------------------------------------------------
(* The helpers of sql/type.go, called one at a time. *)

InitTypesOnly ==
    /\ InitOneInsert
    /\ InitSessions
    /\ InitNoComparison
    /\ (InitCalls \/ InitNullableCalls)
    /\ InitNoCte /\ InitNoIndex /\ InitNoJson

NextTypes ==
    \/ CallErrIfMismatchedColumns
    \/ CallCompareNulls
    \/ CallConvertToBool
    \/ CallJsonTypeCompare

SpecTypes == InitTypesOnly /\ [][NextTypes]_vars

-----------------------------------------------------------------------------
(* One recursive CTE, evaluated to its end.  The iterator that evaluates   *)
(* it is driven until it returns, so each of its steps is taken when it    *)
(* can be.                                                                 *)

InitCteOnly ==
    /\ InitOneInsert
    /\ InitSessions
    /\ InitNoComparison
    /\ InitCtes
    /\ InitNoCall /\ InitNoIndex /\ InitNoJson

NextCte ==
    \/ CteSeed
    \/ CteRecurse
    \/ CteLimit
    \/ CteFixpoint

SpecCte == InitCteOnly /\ [][NextCte]_vars /\ WF_vars(NextCte)

-----------------------------------------------------------------------------
(* INSERT statements against the indexed table, one after the other. *)

InitIndexOnly ==
    /\ InitOneInsert
    /\ InitSessions
    /\ InitNoComparison
    /\ InitIndexes
    /\ InitNoCall /\ InitNoCte /\ InitNoJson

NextIndex == InsertIntoIndexed

SpecIndex == InitIndexOnly /\ [][NextIndex]_vars

-----------------------------------------------------------------------------
(* The JSON functions, called one at a time. *)

InitJsonOnly ==
    /\ InitOneInsert
    /\ InitSessions
    /\ InitNoComparison
    /\ InitJsonCalls
    /\ InitNoCall /\ InitNoCte /\ InitNoIndex

NextJson ==
    \/ JsonSet
    \/ JsonInsert
    \/ JsonReplace
    \/ JsonRemove
    \/ JsonCompare

SpecJson == InitJsonOnly /\ [][NextJson]_vars

-----------------------------------------------------------------------------
(* The function expressions, called one at a time. *)

InitFunctionsOnly ==
    /\ InitOneInsert
    /\ InitSessions
    /\ InitNoComparison
    /\ InitFunctionCalls
    /\ InitNoCte /\ InitNoIndex /\ InitNoJson

NextFunctions ==
    \/ CallArea
    \/ CallFunctionName

SpecFunctions == InitFunctionsOnly /\ [][NextFunctions]_vars

-----------------------------------------------------------------------------
(* Vocabulary of the properties of the insert rules. *)

CapabilityErrors ==
    {"ErrInsertIntoNotSupported", "ErrReplaceIntoNotSupported",
     "ErrOnDuplicateKeyUpdateNotSupported"}

ColumnErrors ==
    {"ErrInsertIntoNonexistentColumn", "ErrGeneratedColumnValue",
     "ErrInsertIntoDuplicateColumn"}

MismatchError == "ErrInsertIntoMismatchValueCount"
NonNullableError == "ErrInsertIntoNonNullableDefaultNullColumn"

\* resolveInsertRows has just been applied to the plan `before`.
Resolved == rule = "resolveInsertRows"

\* The source with an Exchange above it taken off.
Unwrapped(src) == IF src.kind = "Exchange" THEN src.child ELSE src

\* The source is a list of value tuples that are all empty.
AllTuplesEmpty(src) ==
    /\ Unwrapped(src).kind = "Values"
    /\ \A k \in 1..Len(Unwrapped(src).tuples) : Unwrapped(src).tuples[k] = 0

\* The column list in effect for the statement ii: the list written, or the
\* full destination schema when none was written and some tuple is not empty.
ListInEffect(ii) ==
    IF ii.ColumnNames = <<>> /\ ~AllTuplesEmpty(ii.Source)
    THEN [i \in 1..Len(table.schema) |-> table.schema[i].Name]
    ELSE ii.ColumnNames

\* The positions of list that name column f, compared without case.
Naming(f, list) == { j \in 1..Len(list) : ToLower(list[j]) = ToLower(f.Name) }

\* The destination columns the list in effect leaves out.
Omitted(ii) ==
    { i \in 1..Len(table.schema) : Naming(table.schema[i], ListInEffect(ii)) = {} }

Required(f) == ~f.Nullable /\ ~f.HasDefault /\ ~f.AutoIncrement

\* C1: an INSERT that leaves out a NOT NULL column with no default and no
\* auto-increment fails analysis, with ErrInsertIntoNonNullableDefaultNullColumn
\* naming such a column unless an earlier check (capabilities, column list,
\* value count) has already failed; when every column left out is nullable,
\* has a default or is auto-increment, that error is not raised, and an
\* analysis that succeeds has wrapped the source in a projection.
C1_OmittedColumns ==
    Resolved =>
      LET missing == { i \in Omitted(before) : Required(table.schema[i]) }
      IN  /\ missing # {} =>
               /\ err # NoErr
               /\ err.kind \notin (CapabilityErrors \cup ColumnErrors \cup {MismatchError})
                    => /\ err.kind = NonNullableError
                       /\ \E i \in missing : err.arg = table.schema[i].Name
          /\ missing = {} =>
               /\ err.kind # NonNullableError
               /\ err = NoErr =>
                    /\ node.Source.kind = "Project"
                    /\ node.Source.child = before.Source

\* C1 witness: an explicit column list left out a required column and
\* analysis failed with the error naming it.
C1_Witness ==
    /\ Resolved
    /\ before.ColumnNames # <<>>
    /\ err.kind = NonNullableError
    /\ \E i \in Omitted(before) : Required(table.schema[i]) /\ err.arg = table.schema[i].Name
    /\ Omitted(before) # 1..Len(table.schema)

\* The problems an explicit column list can have.
NamesUnknown(list) ==
    \E k \in 1..Len(list) :
      \A i \in 1..Len(table.schema) : ToLower(table.schema[i].Name) # ToLower(list[k])
NamesGenerated(list) ==
    \E k \in 1..Len(list) :
      \E i \in 1..Len(table.schema) :
        ToLower(table.schema[i].Name) = ToLower(list[k]) /\ table.schema[i].Generated
NamesTwice(list) ==
    \E j, k \in 1..Len(list) : j # k /\ ToLower(list[j]) = ToLower(list[k])

\* C2: once the capability checks pass, resolveInsertRows rejects an explicit
\* column list that names an unknown column, a generated column or one column
\* twice (without regard to case) with one of the three column errors, the
\* very one when the list has a single kind of problem; a list of distinct,
\* existing, non-generated columns raises none of them.
C2_ColumnValidation ==
    (Resolved /\ before.ColumnNames # <<>> /\ err.kind \notin CapabilityErrors) =>
      LET list == before.ColumnNames
          u == NamesUnknown(list)
          g == NamesGenerated(list)
          d == NamesTwice(list)
      IN  /\ (u \/ g \/ d) => err.kind \in ColumnErrors
          /\ (u /\ ~g /\ ~d) => err.kind = "ErrInsertIntoNonexistentColumn"
          /\ (g /\ ~u /\ ~d) => err.kind = "ErrGeneratedColumnValue"
          /\ (d /\ ~u /\ ~g) => err.kind = "ErrInsertIntoDuplicateColumn"
          /\ ~(u \/ g \/ d) => err.kind \notin ColumnErrors

\* C2 witness: a list naming one column twice in different case was rejected
\* as a duplicate.
C2_Witness ==
    /\ Resolved
    /\ err.kind = "ErrInsertIntoDuplicateColumn"
    /\ \E j, k \in 1..Len(before.ColumnNames) :
         /\ j # k
         /\ before.ColumnNames[j] # before.ColumnNames[k]
         /\ ToLower(before.ColumnNames[j]) = ToLower(before.ColumnNames[k])

\* The value counts of the source do not match n columns.
CountMismatch(src, n) ==
    LET values == Unwrapped(src)
    IN  CASE values.kind = "Values" -> \E k \in 1..Len(values.tuples) : values.tuples[k] # n
          [] values.kind = "LoadData" -> FALSE
          [] OTHER -> SchemaLen(values) # n

\* C3: once the capability and column checks pass, an INSERT ... VALUES or
\* INSERT ... SELECT fails with ErrInsertIntoMismatchValueCount exactly when a
\* value tuple, or the source schema, does not have as many columns as the
\* column list in effect, with or without an Exchange above the source.
C3_ValueCount ==
    (/\ Resolved
     /\ err.kind \notin (CapabilityErrors \cup ColumnErrors)
     /\ Unwrapped(before.Source).kind # "LoadData") =>
      (err.kind = MismatchError
         <=> CountMismatch(before.Source, Len(ListInEffect(before))))

\* The same statement for every source but an Exchange above value tuples
\* that are all empty.
ValueCountExceptEmptyExchange ==
    (/\ Resolved
     /\ err.kind \notin (CapabilityErrors \cup ColumnErrors)
     /\ Unwrapped(before.Source).kind # "LoadData"
     /\ ~(before.Source.kind = "Exchange" /\ AllTuplesEmpty(before.Source))) =>
      (err.kind = MismatchError
         <=> CountMismatch(before.Source, Len(ListInEffect(before))))

\* The expression the projection must hold for column f under list.
ExpectedExpr(f, list) ==
    LET core == IF Naming(f, list) # {}
                THEN [kind |-> "GetField",
                      index |-> (CHOOSE j \in Naming(f, list) : TRUE) - 1,
                      name |-> f.Name]
                ELSE [kind |-> "ColumnDefaultValue", col |-> f.Name, isNil |-> ~f.HasDefault]
    IN  IF f.AutoIncrement THEN [kind |-> "AutoIncrement", child |-> core] ELSE core

\* C4: the projection of a successful resolveInsertRows has one expression
\* per destination column, in schema order: the field at the (zero-based)
\* position where the column list in effect names the column, else the
\* column's default, inside an auto-increment generator for an
\* auto-increment column.
C4_Projection ==
    (Resolved /\ err = NoErr) =>
      /\ node.Source.kind = "Project"
      /\ Len(node.Source.exprs) = Len(table.schema)
      /\ \A i \in 1..Len(table.schema) :
           /\ Cardinality(Naming(table.schema[i], ListInEffect(before))) <= 1
           /\ node.Source.exprs[i] = ExpectedExpr(table.schema[i], ListInEffect(before))

\* C4 witness: a projection holding a forwarded field whose list position is
\* not its schema position, a default, and an auto-increment generator.
C4_Witness ==
    /\ Resolved /\ err = NoErr
    /\ \E i \in 1..Len(table.schema) :
         /\ node.Source.exprs[i].kind = "GetField"
         /\ node.Source.exprs[i].index # i - 1
    /\ \E i \in 1..Len(table.schema) :
         /\ node.Source.exprs[i].kind = "AutoIncrement"
         /\ node.Source.exprs[i].child.kind = "ColumnDefaultValue"

\* The field references of a projection, with generators looked through.
FieldIndexes(exprs) ==
    { exprs[i].index : i \in { k \in 1..Len(exprs) : exprs[k].kind = "GetField" } }
      \cup { exprs[i].child.index :
               i \in { k \in 1..Len(exprs) :
                         exprs[k].kind = "AutoIncrement" /\ exprs[k].child.kind = "GetField" } }

\* C5: in every plan resolveInsertRows returns without error, each forwarded
\* field reference has an index within the source's row.
C5_FieldIndexInRange ==
    (Resolved /\ err = NoErr) =>
      \A j \in FieldIndexes(node.Source.exprs) :
        0 <= j /\ j < SchemaLen(node.Source.child)

\* C5 witness: a returned plan forwarding the last column of a source row of
\* two or more columns.
C5_Witness ==
    /\ Resolved /\ err = NoErr
    /\ SchemaLen(node.Source.child) >= 2
    /\ SchemaLen(node.Source.child) - 1 \in FieldIndexes(node.Source.exprs)

\* C6: on an insertable destination, analysis of a REPLACE into a table that
\* is not replaceable fails with ErrReplaceIntoNotSupported, analysis of an
\* INSERT with ON DUPLICATE KEY UPDATE into a table that is not updatable
\* fails with ErrOnDuplicateKeyUpdateNotSupported, and a plain INSERT raises
\* no capability error.
C6_Capabilities ==
    (Resolved /\ table.Insertable) =>
      /\ (before.IsReplace /\ ~table.Replaceable)
            => err.kind = "ErrReplaceIntoNotSupported"
      /\ (before.OnDupExprs > 0 /\ ~table.Updatable /\ ~(before.IsReplace /\ ~table.Replaceable))
            => err.kind = "ErrOnDuplicateKeyUpdateNotSupported"
      /\ (~before.IsReplace /\ before.OnDupExprs = 0)
            => err.kind \notin CapabilityErrors
      /\ (before.IsReplace => table.Replaceable) /\ (before.OnDupExprs > 0 => table.Updatable)
            => err.kind \notin CapabilityErrors

\* C6 witness: an INSERT ... ON DUPLICATE KEY UPDATE into a replaceable but
\* not updatable table was rejected.
C6_Witness ==
    /\ Resolved
    /\ table.Insertable /\ table.Replaceable /\ ~table.Updatable
    /\ before.OnDupExprs > 0
    /\ err.kind = "ErrOnDuplicateKeyUpdateNotSupported"

\* C7: a rule leaves the plan node it was given as it was: the node has the
\* same column names and source after the rule returned as before.
C7_InputNotModified ==
    rule # "none" =>
      /\ given.ColumnNames = before.ColumnNames
      /\ given.Source = before.Source

\* The plan has been through setInsertColumns and resolveInsertRows: its
\* column names are filled in and its source is the projection.
Processed(ii) == ii.ColumnNames # <<>> /\ ii.Source.kind = "Project"

\* C8: setInsertColumns and resolveInsertRows applied to a plan they have
\* already processed return an equal plan, without error.
C8_Idempotent ==
    (rule \in {"setInsertColumns", "resolveInsertRows"} /\ Processed(before)) =>
      err = NoErr /\ node = before

-----------------------------------------------------------------------------
(* Properties of the session query-info functions. *)

\* What ROW_COUNT(), FOUND_ROWS() and LAST_INSERT_ID() return in session t
\* with the query info as in store.
Returned(store, t) ==
    <<RowCountEval(store, t), FoundRowsEval(store, t), LastInsertIdEval(store, t)>>

\* C9: under every interleaving, a step of the evaluation of
\* LAST_INSERT_ID(expr) in one session leaves what ROW_COUNT(), FOUND_ROWS()
\* and LAST_INSERT_ID() return in every other session unchanged.
C9_SessionIsolation ==
    [][\A s \in Sessions :
         (actor' = s /\ op' \in {"expr", "LAST_INSERT_ID(expr)", "LAST_INSERT_ID(expr) error",
                                 "LAST_INSERT_ID(expr) panic"})
           => \A t \in Sessions \ {s} : Returned(info', t) = Returned(info, t)]_vars

\* C9 witness: a session has stored a new last-insert-id through
\* LAST_INSERT_ID(expr) while another session, holding a different id, is in
\* the middle of its own LAST_INSERT_ID(expr).
C9_Witness ==
    \E s \in Sessions, t \in Sessions :
      /\ s # t
      /\ actor = s /\ op = "LAST_INSERT_ID(expr)"
      /\ info[s].LastInsertId = -1
      /\ info[t].LastInsertId = 1
      /\ pc[t].at = "evaluated"

-----------------------------------------------------------------------------
(* Properties of IN and NOT IN. *)

\* x equals some element of the list.
Hit(x, list) == \E k \in 1..Len(list) : ~list[k].null /\ list[k].v = x.v
HasNull(list) == \E k \in 1..Len(list) : list[k].null

\* x IN (list) as the three-valued logic of SQL defines it.
InValue(x, list) ==
    IF x.null THEN "null"
    ELSE IF Hit(x, list) THEN "true"
    ELSE IF HasNull(list) THEN "null"
    ELSE "false"

\* Three-valued negation.
Not3(b) == CASE b = "true" -> "false" [] b = "false" -> "true" [] OTHER -> "null"

\* C10: x IN (list) is true when a non-NULL x equals an element, false when
\* it equals none and no element is NULL, NULL when it equals none and an
\* element is NULL, and NULL for a NULL x; x NOT IN (list) is its three-valued
\* negation; and the query tests expect exactly these results.
C10_InList ==
    /\ (cmp.op = "none" /\ cmp.expected = "none") =>
         /\ InTuple(cmp.x, cmp.list) = InValue(cmp.x, cmp.list)
         /\ NotInTuple(cmp.x, cmp.list) = Not3(InTuple(cmp.x, cmp.list))
    /\ (cmp.op = "IN" /\ cmp.res # "none") => cmp.res = InValue(cmp.x, cmp.list)
    /\ (cmp.op = "NOT IN" /\ cmp.res # "none") => cmp.res = Not3(InValue(cmp.x, cmp.list))
    /\ (cmp.expected # "none" /\ cmp.op = "IN") => cmp.expected = InValue(cmp.x, cmp.list)
    /\ (cmp.expected # "none" /\ cmp.op = "NOT IN")
         => cmp.expected = Not3(InValue(cmp.x, cmp.list))

\* C10 witness: a NOT IN that misses on a list holding NULL has evaluated to
\* NULL, as the query test it came from expects.
C10_Witness ==
    /\ cmp.op = "NOT IN"
    /\ cmp.expected = "null" /\ cmp.res = "null"
    /\ ~cmp.x.null /\ ~Hit(cmp.x, cmp.list) /\ HasNull(cmp.list)

-----------------------------------------------------------------------------
(* Column counts of operand types *)

Returned2(fn) == call.fn = fn /\ call.res # NoResult

\* Whether type t has a subtype at the path p of column indexes, read from
\* index i of the path on, and that subtype.
RECURSIVE HasSubtype(_, _, _)
HasSubtype(t, p, i) ==
    \/ i > Len(p)
    \/ /\ t.kind = "tuple"
       /\ p[i] <= Len(t.elems)
       /\ HasSubtype(t.elems[p[i]], p, i + 1)

RECURSIVE Subtype(_, _, _)
Subtype(t, p, i) == IF i > Len(p) THEN t ELSE Subtype(t.elems[p[i]], p, i + 1)

\* The positions both types have, and those where the column counts differ.
Positions(t1, t2) ==
    { p \in SeqsUpTo(1..MaxArity, 0, 3) : HasSubtype(t1, p, 1) /\ HasSubtype(t2, p, 1) }

MismatchedPositions(t1, t2) ==
    { p \in Positions(t1, t2) :
        NumColumns(Subtype(t1, p, 1)) # NumColumns(Subtype(t2, p, 1)) }

\* C11: ErrIfMismatchedColumns returns ErrInvalidOperandColumns whenever the
\* two types differ in their number of columns at the top level or at any
\* pair of corresponding nested positions (and nil when they differ
\* nowhere); every tuple comparison of ErrorQueries gets the error.
C11_ArityMismatch ==
    Returned2("ErrIfMismatchedColumns") =>
        /\ MismatchedPositions(call.args[1], call.args[2]) # {}
             => call.res.kind = "ErrInvalidOperandColumns"
        /\ MismatchedPositions(call.args[1], call.args[2]) = {}
             => call.res = NoErr
        /\ call.args \in ErrorQueries => call.res.kind = "ErrInvalidOperandColumns"

\* Two tuples of the same length that differ in a nested position got the error.
C11_Witness ==
    /\ Returned2("ErrIfMismatchedColumns")
    /\ call.args[1].kind = "tuple" /\ call.args[2].kind = "tuple"
    /\ NumColumns(call.args[1]) = NumColumns(call.args[2])
    /\ call.res.kind = "ErrInvalidOperandColumns"

-----------------------------------------------------------------------------
(* The ordering of nil *)

\* C12: CompareNulls reports nil as the smaller operand when exactly one
\* operand is nil (nil against v is -1, "a < b"; v against nil is +1,
\* "a > b") and reports 0 when both are nil.
C12_NullOrdering ==
    Returned2("CompareNulls") =>
        LET a == call.args[1]
            b == call.args[2]
        IN /\ a = NilValue /\ b = NilValue => call.res = NullComparison(TRUE, 0)
           /\ a = NilValue /\ b # NilValue => call.res = NullComparison(TRUE, -1)
           /\ a # NilValue /\ b = NilValue => call.res = NullComparison(TRUE, 1)

\* What CompareNulls does return: +1 for nil against v, -1 for v against
\* nil, 0 and "no nil" for two values that are not nil.
NullOrderingAsReturned ==
    Returned2("CompareNulls") =>
        LET a == call.args[1]
            b == call.args[2]
        IN /\ a = NilValue /\ b = NilValue => call.res = NullComparison(TRUE, 0)
           /\ a = NilValue /\ b # NilValue => call.res = NullComparison(TRUE, 1)
           /\ a # NilValue /\ b = NilValue => call.res = NullComparison(TRUE, -1)
           /\ a # NilValue /\ b # NilValue => call.res = NullComparison(FALSE, 0)

-----------------------------------------------------------------------------
(* Conversion to a boolean *)

\* A string is a number when it is an optional sign, a mantissa of digits
\* with at most one point and at least one digit, and an optional exponent
\* of "e", an optional sign and at least one digit.  a is the length of the
\* sign, m the index of the last character of the mantissa, g the length of
\* the sign of the exponent.
IsNumeralSplit(s, a, m, g) ==
    /\ a <= m /\ m <= Len(s)
    /\ a = 1 => s[1] = "-"
    /\ \A i \in (a + 1)..m : s[i] \in Digits \cup {"."}
    /\ Cardinality({ i \in (a + 1)..m : s[i] = "." }) <= 1
    /\ \E i \in (a + 1)..m : s[i] \in Digits
    /\ \/ m = Len(s) /\ g = 0
       \/ /\ m + 1 + g < Len(s)
          /\ s[m + 1] = "e"
          /\ g = 1 => s[m + 2] = "-"
          /\ \A i \in (m + 2 + g)..Len(s) : s[i] \in Digits

IsNumeral(s) ==
    \E a \in 0..1, m \in 0..Len(s), g \in 0..1 : IsNumeralSplit(s, a, m, g)

\* The number is not zero when a digit of its mantissa is not.
IsNonZeroNumeral(s) ==
    \E a \in 0..1, m \in 0..Len(s), g \in 0..1 :
        IsNumeralSplit(s, a, m, g) /\ \E i \in (a + 1)..m : s[i] = "1"

\* C13: ConvertToBool returns false for a numeric zero and true for every
\* other number of any signed, unsigned or floating type; for a string it
\* returns true exactly when the string is a number that is not zero, and
\* false without an error when the string is no number; for nil it returns
\* an error.
C13_ConvertToBool ==
    Returned2("ConvertToBool") =>
        LET v == call.args[1]
        IN /\ v.type \in SignedTypes \cup UnsignedTypes \cup FloatTypes
                => call.res = BoolResult(v.val # 0, NoErr)
           /\ v.type = "string"
                => call.res = BoolResult(IsNonZeroNumeral(v.val), NoErr)
           /\ v.type = "nil" => call.res.err # NoErr

\* A string with a sign, a point and an exponent was found true, and one
\* that is no number was found false.
C13_Witness ==
    /\ Returned2("ConvertToBool")
    /\ call.args[1].type = "string"
    /\ \/ call.args[1].val = <<"-", ".", "1">> /\ call.res.b
       \/ call.args[1].val = <<"1", "e", "1">> /\ call.res.b

-----------------------------------------------------------------------------
(* Recursive CTEs halt *)

\* Whether the k-th evaluation of the recursive leg of q gives a row: some
\* row of the seed is still below the limit of the WHERE clause after k - 1
\* evaluations.
GivesRows(q, k) ==
    \E i \in 1..Len(q.seed) :
        IF q.leg = "n + 1" THEN q.seed[i] + (k - 1) < q.below
                           ELSE q.seed[i] < q.below

\* The recursive leg keeps giving rows until the bound is passed.
PassesBound(q) == \A k \in 1..(RecursionLimit + 1) : GivesRows(q, k)

\* C14: the evaluation of a recursive CTE always halts; it fails with the
\* recursion-limit error when the recursive leg keeps producing rows until
\* the bound is passed, and completes without error when some step within
\* the bound produces no new rows.
C14_CteHalts ==
    /\ <>(cte.status \in {"complete", "failed"})
    /\ [](cte.status = "failed" =>
            cte.err.kind = "ErrCteRecursionLimitExceeded" /\ PassesBound(cte.query))
    /\ [](cte.status = "complete" =>
            cte.err = NoErr /\ ~PassesBound(cte.query))

\* A leg that counts upwards ran into the bound.
C14_Witness ==
    /\ cte.status = "failed"
    /\ cte.query.leg = "n + 1"
    /\ cte.cycle > RecursionLimit

-----------------------------------------------------------------------------
(* Unique prefix index *)

RowsOf(stmt) == { stmt[k] : k \in 1..Len(stmt) }

\* The statement brings only keys the table does not hold.
NewKeys(rows, stmt) == \A k \in 1..Len(stmt) : \A r \in rows : r.i # stmt[k].i

\* Two values agree on each of their first n characters.
SameFirstChars(v, w, n) ==
    \A k \in 1..n :
        /\ k <= Len(v) <=> k <= Len(w)
        /\ k <= Len(v) => v[k] = w[k]

\* Two rows of the set share the first n characters of v.
SharedPrefix(rows, n) ==
    \E r1 \in rows, r2 \in rows : r1 # r2 /\ SameFirstChars(r1.v, r2.v, n)

\* C15: with a unique index on the first n characters, no two rows of the
\* table ever share their first n characters; an INSERT (of rows with new
\* keys) that would create such a pair is rejected with
\* ErrUniqueKeyViolation, and one whose rows all differ within the first n
\* characters is accepted.
C15_UniquePrefix ==
    /\ ~SharedPrefix(idx.rows, idx.n)
    /\ idx.stmt # <<>> /\ NewKeys(idx.before, idx.stmt) =>
         IF SharedPrefix(idx.before \cup RowsOf(idx.stmt), idx.n)
         THEN idx.err.kind = "ErrUniqueKeyViolation"
         ELSE idx.err = NoErr /\ idx.rows = idx.before \cup RowsOf(idx.stmt)

\* Two rows with different values of v and the same prefix were rejected.
C15_Witness ==
    /\ idx.stmt # <<>>
    /\ NewKeys(idx.before, idx.stmt)
    /\ idx.err.kind = "ErrUniqueKeyViolation"
    /\ \A k \in 1..Len(idx.stmt) : \A r \in idx.before : r.v # idx.stmt[k].v
    /\ \A j \in 1..Len(idx.stmt), k \in 1..Len(idx.stmt) :
         j # k => idx.stmt[j].v # idx.stmt[k].v

\* C16: an INSERT that fails inserts none of its rows: the table holds what
\* it held before, and any following INSERT of rows with the same primary
\* keys and with prefixes that are free is accepted.
C16_FailedInsertInsertsNothing ==
    idx.err # NoErr =>
        /\ idx.rows = idx.before
        /\ \A s \in InsertStatements :
             (/\ { r.i : r \in RowsOf(s) } = { r.i : r \in RowsOf(idx.stmt) }
              /\ NewKeys(idx.before, idx.stmt)
              /\ ~SharedPrefix(idx.before \cup RowsOf(s), idx.n))
             => ExecInsert(idx.rows, idx.n, s).err = NoErr

\* A statement of several rows failed with a unique-key violation after
\* its first row had gone in.
C16_Witness ==
    /\ idx.err.kind = "ErrUniqueKeyViolation"
    /\ Len(idx.stmt) > 1
    /\ ExecInsert(idx.before, idx.n, <<idx.stmt[1]>>).err = NoErr
    /\ idx.rows = idx.before

-----------------------------------------------------------------------------
(* JSON mutations of an object field *)

Mutations == {"Set", "Insert", "Replace", "Remove"}

\* The tests of a mutation.
TestsOf(mode) ==
    CASE mode = "Set" -> JsonSetTests
      [] mode = "Insert" -> JsonInsertTests
      [] mode = "Replace" -> JsonReplaceTests
      [] mode = "Remove" -> JsonRemoveTests

\* The call is one of the tests of the mutation that was called.  Remove
\* takes no value.
IsTest(t) ==
    /\ doc.in = t.doc
    /\ doc.path = t.path
    /\ doc.op = "Remove" \/ doc.val = t.value

\* The returned document is the input with the field f holding the value.
FieldPut(f) ==
    /\ doc.out.t = "OBJECT"
    /\ DOMAIN doc.out.v = DOMAIN doc.in.v \cup {f}
    /\ doc.out.v[f] = doc.val
    /\ \A j \in DOMAIN doc.in.v \ {f} : doc.out.v[j] = doc.in.v[j]

\* C17: for an object and a path that names a field: Insert adds the field
\* only when it is absent (changed) and returns the document unchanged when
\* it exists; Replace overwrites the field only when it exists (changed)
\* and returns the document unchanged when it is absent; Set overwrites or
\* adds, changed in both cases.  Every case of the mutation tests gets the
\* result and the flag the test expects.
C17_ObjectField ==
    /\ (doc.op \in {"Set", "Insert", "Replace"} /\ doc.why = "field"
          /\ doc.in.t = "OBJECT") =>
         LET present == doc.name \in DOMAIN doc.in.v
             put == FieldPut(doc.name) /\ doc.changed
             same == doc.out = doc.in /\ ~doc.changed
         IN /\ doc.err = NoJsonError
            /\ doc.op = "Insert" => IF present THEN same ELSE put
            /\ doc.op = "Replace" => IF present THEN put ELSE same
            /\ doc.op = "Set" => put
    /\ doc.op \in Mutations =>
         \A t \in TestsOf(doc.op) :
             IsTest(t) => doc.err = NoJsonError /\ doc.out = t.resultVal
                            /\ doc.changed = t.changed

\* Replace left alone an object that lacks the field.
C17_Witness ==
    /\ doc.op = "Replace"
    /\ doc.why = "field"
    /\ doc.in.t = "OBJECT"
    /\ doc.name \notin DOMAIN doc.in.v
    /\ doc.in.v # <<>>
    /\ doc.out = doc.in
    /\ ~doc.changed

-----------------------------------------------------------------------------
(* JSON mutations leave their input alone *)

-----------------------------------------------------------------------------
(* The order of JSON values *)

\* The documented precedence of the types, highest first.
PrecedenceList == <<"BOOLEAN", "ARRAY", "OBJECT", "STRING", "NUMBER", "NULL">>
PlaceOf(t) == CHOOSE i \in 1..Len(PrecedenceList) : PrecedenceList[i] = t

\* C19: JSON.Compare orders two values of different types by the precedence
\* BOOLEAN > ARRAY > OBJECT > STRING > NUMBER > NULL whatever their
\* contents, values of the same type by content (an array that is a proper
\* prefix of another is the smaller), is antisymmetric, and gives 0 exactly
\* for equal values; every case of TestJsonCompare gets the expected result.
C19_JsonCompare ==
    doc.op = "Compare" =>
        LET a == doc.in
            b == doc.val
        IN /\ doc.cmp \in {-1, 0, 1}
           /\ a.t # b.t => doc.cmp = (IF PlaceOf(a.t) < PlaceOf(b.t) THEN 1 ELSE -1)
           /\ doc.cmp = 0 - compareJSON(b, a)
           /\ doc.cmp = 0 <=> a = b
           /\ (a.t = "ARRAY" /\ b.t = "ARRAY" /\ Len(a.v) < Len(b.v)
                 /\ SubSeq(b.v, 1, Len(a.v)) = a.v) => doc.cmp = -1
           /\ \A t \in TestJsonCompare :
                (a = t.left /\ b = t.right) => doc.cmp = t.cmp

\* An array was found smaller than a longer one that starts with it, and
\* an object smaller than an array.
C19_Witness ==
    /\ doc.op = "Compare"
    /\ doc.cmp = -1
    /\ \/ /\ doc.in.t = "ARRAY" /\ doc.val.t = "ARRAY"
          /\ doc.in.v # <<>>
          /\ Len(doc.in.v) < Len(doc.val.v)
          /\ SubSeq(doc.val.v, 1, Len(doc.in.v)) = doc.in.v
       \/ doc.in.t = "OBJECT" /\ doc.val.t = "ARRAY" /\ doc.val.v = <<>>

-----------------------------------------------------------------------------
(* Malformed JSON paths *)

MalformedKinds ==
    {"empty", "no $", "no field name", "unterminated quote", "non-integer index"}

\* C20: a mutation called with a malformed path (empty, not starting with
\* '$', a '.' with no field name, an unterminated quoted field, a
\* non-integer array index) returns an error and changed = false; Remove
\* called with the root path returns "The path expression '$' is not
\* allowed in this context." and changed = false; every path of
\* JsonPathParseErrTests gets the message the test expects.
C20_MalformedPath ==
    doc.op \in Mutations =>
        /\ doc.why \in MalformedKinds => doc.err # NoJsonError /\ ~doc.changed
        /\ (doc.op = "Remove" /\ doc.why = "root") =>
             /\ doc.err.msg = "The path expression '$' is not allowed in this context."
             /\ ~doc.changed
        /\ \A t \in JsonPathParseErrTests :
             doc.path = t.path => doc.err = JsonError(t.msg, t.at) /\ ~doc.changed

\* A path with an index that is no integer was refused.
C20_Witness ==
    /\ doc.op \in Mutations
    /\ doc.why = "non-integer index"
    /\ doc.err.msg = "Unable to convert to an int"
    /\ ~doc.changed

-----------------------------------------------------------------------------
(* Properties of LAST_INSERT_ID(expr) and of the query-info frame. *)

\* Go's conversion of a numeric value to int64: an integer keeps its value
\* modulo the word, a float loses its fraction.
Abs(k) == IF k < 0 THEN -k ELSE k

AsInt64(v) ==
    IF v.type \in {"float32", "float64"}
      THEN CHOOSE n \in MinInt64..MaxInt64 :
             /\ 2 * Abs(n) <= Abs(v.val) /\ Abs(v.val) < 2 * Abs(n) + 2
             /\ n * v.val >= 0
      ELSE CHOOSE n \in MinInt64..MaxInt64 : (n - v.val) % (2 ^ WordBits) = 0

IsNumeric(v) == v \in NumericResults

\* A step by which session s sets its own last-insert-id.
SetsLastInsertId(s) ==
    actor' = s /\ op' \in {"statement", "LAST_INSERT_ID(expr)"}

\* C21: a LAST_INSERT_ID(expr) whose argument gave the numeric value v
\* returns v and stores v converted to int64; the stored id of a session
\* stays until the session sets it again; and LAST_INSERT_ID() returns the
\* stored id.  So the next LAST_INSERT_ID() of the session returns int64(v).
C21_LastInsertIdExpr ==
    [][\A s \in Sessions :
         /\ (actor' = s /\ op' = "LAST_INSERT_ID(expr)")
              => /\ IsNumeric(pc[s].child.value)
                 /\ ret' = pc[s].child.value
                 /\ info'[s].LastInsertId = AsInt64(pc[s].child.value)
         /\ ~SetsLastInsertId(s) => info'[s].LastInsertId = info[s].LastInsertId
         /\ (actor' = s /\ op' = "LAST_INSERT_ID()")
              => ret' = Int64Value(info[s].LastInsertId)]_vars

\* C21 witness: LAST_INSERT_ID() returned -1, the int64 of the largest
\* uint64, which only LAST_INSERT_ID(expr) can have stored.
C21_Witness ==
    \E s \in Sessions :
      /\ actor = s /\ op = "LAST_INSERT_ID()"
      /\ ret = Int64Value(AsInt64(GoValue("uint64", MaxUint64)))
      /\ ret.val = -1

\* C26: evaluating LAST_INSERT_ID(expr) never panics.
C26_NeverPanics ==
    \A s \in Sessions : pc[s].at # "panicked"

\* What holds of LAST_INSERT_ID(expr) for the values toInt64 accepts: Eval
\* panics only on a value that is not of a numeric Go type.
PanicsOnlyOnNonNumeric ==
    [][\A s \in Sessions :
         (actor' = s /\ op' = "LAST_INSERT_ID(expr) panic")
           => pc[s].child.value \in OtherResults]_vars

\* C27: ROW_COUNT(), FOUND_ROWS() and LAST_INSERT_ID() return the stored
\* value of their key and leave all query info as it was; a step of
\* LAST_INSERT_ID(expr) leaves every row-count and found-rows as it was.
C27_QueryInfoFrame ==
    [][\A s \in Sessions :
         /\ (actor' = s /\ op' = "ROW_COUNT()")
              => ret' = Int64Value(info[s].RowCount) /\ info' = info
         /\ (actor' = s /\ op' = "FOUND_ROWS()")
              => ret' = Int64Value(info[s].FoundRows) /\ info' = info
         /\ (actor' = s /\ op' = "LAST_INSERT_ID()")
              => ret' = Int64Value(info[s].LastInsertId) /\ info' = info
         /\ (actor' = s /\ op' \in {"expr", "LAST_INSERT_ID(expr)",
                                   "LAST_INSERT_ID(expr) error",
                                   "LAST_INSERT_ID(expr) panic"})
              => \A t \in Sessions :
                   /\ info'[t].RowCount = info[t].RowCount
                   /\ info'[t].FoundRows = info[t].FoundRows]_vars

\* C27 witness: ROW_COUNT() returned 1 in a session whose found-rows is 0
\* and whose last-insert-id was stored by LAST_INSERT_ID(expr).
C27_Witness ==
    \E s \in Sessions :
      /\ actor = s /\ op = "ROW_COUNT()" /\ ret = Int64Value(1)
      /\ info[s].FoundRows = 0
      /\ info[s].LastInsertId = 2

\* C28: when the argument of LAST_INSERT_ID(expr) gives an error, Eval gives
\* no value and the session's last-insert-id is the one before the call.
C28_ArgumentError ==
    [][\A s \in Sessions :
         (actor' = s /\ op' = "LAST_INSERT_ID(expr) error")
           => /\ pc[s].child.err
              /\ ret' = NoValue
              /\ info' = info]_vars

\* C28 witness: the argument failed in a session whose last-insert-id is 1.
C28_Witness ==
    \E s \in Sessions :
      /\ actor = s /\ op = "LAST_INSERT_ID(expr) error"
      /\ ret = NoValue
      /\ info[s].LastInsertId = 1

-----------------------------------------------------------------------------
(* The tree identity the insert rules report. *)

\* C22: a rule that returned without error reports NewTree only when the
\* plan it returns differs from the plan it was given, and SameTree
\* otherwise.
C22_ChangeReported ==
    (rule # "none" /\ err = NoErr)
      => ((tid = "NewTree") <=> (node # before))

\* What holds of the identities as reported: a rule that returns a plan
\* other than the one it was given reports NewTree.
ChangedIsReported ==
    (rule # "none" /\ err = NoErr /\ node # before) => tid = "NewTree"

-----------------------------------------------------------------------------
(* The rows of a recursive CTE *)

\* The rows the k-th evaluation of the recursive leg of q gives, from the
\* seed alone: the seed's rows that are still below the limit, moved on.
StepRows(q, k) ==
    LET Alive(n) == GivesRows(CteQuery(<<n>>, q.leg, q.below), k)
        alive == SelectSeq(q.seed, Alive)
    IN [i \in 1..Len(alive) |-> IF q.leg = "n + 1" THEN alive[i] + k ELSE alive[i]]

\* The rows of the non-recursive leg followed by those of steps 1..k.
RECURSIVE RowsThrough(_, _)
RowsThrough(q, k) == IF k = 0 THEN q.seed ELSE RowsThrough(q, k - 1) \o StepRows(q, k)

\* with recursive n(i) as (select 1 union all select i + 1 from n where i < N)
Counting(N) == CteQuery(<<1>>, "n + 1", N)

\* C23: the rows of a recursive CTE are the rows of the non-recursive leg
\* followed by the rows of every step, each step seeing only the rows of
\* the step before; the query that counts from 1 while below N gives each
\* of 1..N once.
C23_CteRows ==
    /\ cte.status \in {"running", "complete"}
         => cte.rows = RowsThrough(cte.query, cte.cycle)
    /\ cte.status = "running"
         => cte.working = IF cte.cycle = 0 THEN cte.query.seed
                                           ELSE StepRows(cte.query, cte.cycle)
    /\ \A N \in 1..(RecursionLimit + 1) :
         (cte.status = "complete" /\ cte.query = Counting(N))
           => cte.rows = [i \in 1..N |-> i]

\* C23 witness: the counting query went through as many steps as the bound
\* allows and gave 1, 2, ... once each.
C23_Witness ==
    /\ cte.status = "complete"
    /\ cte.query = Counting(RecursionLimit + 1)
    /\ cte.cycle = RecursionLimit
    /\ Len(cte.rows) = RecursionLimit + 1
    /\ \A i \in 1..Len(cte.rows) : cte.rows[i] = i

-----------------------------------------------------------------------------
(* CompareNulls as returned, and JSON.Compare on SQL NULL *)

-----------------------------------------------------------------------------
(* The shape of operand types *)

\* C29: ErrIfMismatchedColumns gives the same verdict with its arguments
\* swapped, and returns no error only for two types of the same shape.
C29_SameShape ==
    Returned2("ErrIfMismatchedColumns") =>
        LET t1 == call.args[1]
            t2 == call.args[2]
        IN /\ (call.res = NoErr) <=> (ErrIfMismatchedColumns(t2, t1) = NoErr)
           /\ call.res = NoErr => t1 = t2

\* What holds of ErrIfMismatchedColumns: the verdict is symmetric, and two
\* types without a tuple of one column get no error only when they have the
\* same shape.
RECURSIVE NoSingleColumnTuple(_)
NoSingleColumnTuple(t) ==
    t.kind = "tuple" =>
        /\ Len(t.elems) > 1
        /\ \A i \in 1..Len(t.elems) : NoSingleColumnTuple(t.elems[i])

SameShapeWithoutSingleColumnTuples ==
    Returned2("ErrIfMismatchedColumns") =>
        LET t1 == call.args[1]
            t2 == call.args[2]
        IN /\ (call.res = NoErr) <=> (ErrIfMismatchedColumns(t2, t1) = NoErr)
           /\ (call.res = NoErr /\ NoSingleColumnTuple(t1) /\ NoSingleColumnTuple(t2))
                => t1 = t2

-----------------------------------------------------------------------------
(* The area of a polygon *)

\* Twice the area a ring encloses, by the trapezoid rule: the sum of
\* (x1 - x2) * (y1 + y2) over the consecutive points, without its sign.
RECURSIVE Trapezoids(_, _)
Trapezoids(points, i) ==
    IF i >= Len(points)
    THEN 0
    ELSE (points[i].X - points[i + 1].X) * (points[i].Y + points[i + 1].Y)
           + Trapezoids(points, i + 1)

TwiceRingArea(l) == Abs(Trapezoids(l.Points, 1))

RECURSIVE TwiceHoles(_, _)
TwiceHoles(lines, i) ==
    IF i > Len(lines) THEN 0 ELSE TwiceRingArea(lines[i]) + TwiceHoles(lines, i + 1)

\* C25: ST_AREA of a polygon is the area of its first ring minus the area
\* of each further ring; a hole that coincides with the exterior ring gives
\* 0 and a triangle with legs of length 1 gives 1/2; NULL gives NULL and a
\* value that is no polygon gives ErrInvalidAreaArgument.
C25_Area ==
    Returned2("ST_AREA") =>
        LET c == call.args[1]
            v == c.value
        IN /\ (~c.err /\ v.type = "Polygon")
                => /\ call.res.err = NoErr
                   /\ call.res.value.type = "float64"
                   /\ call.res.value.val
                        = TwiceRingArea(v.val[1]) - TwiceHoles(v.val, 2)
                   /\ (Len(v.val) = 2 /\ v.val[1] = v.val[2]) => call.res.value.val = 0
                   /\ \A k \in 1..Len(PolygonTable) :
                        v = PolygonTable[k] => call.res.value = SpatialQueryTests[k]
           /\ (~c.err /\ v = Polygon(<<LineString(<<Point(0, 0), Point(1, 0), Point(1, 1),
                                                    Point(0, 0)>>)>>))
                => call.res.value = GoValue("float64", 1)
           /\ (~c.err /\ v.type = "nil") => call.res = EvalResult(NilValue, NoErr)
           /\ (~c.err /\ v.type \notin {"nil", "Polygon"})
                => call.res.err.kind = "ErrInvalidAreaArgument"

\* C25 witness: a ring that runs clockwise, with a hole of half its area,
\* has the area of the other half.
C25_Witness ==
    /\ Returned2("ST_AREA")
    /\ ~call.args[1].err
    /\ call.args[1].value.type = "Polygon"
    /\ Len(call.args[1].value.val) = 2
    /\ shoelace(call.args[1].value.val[1].Points, 1) < 0
    /\ call.res.value = GoValue("float64", 1)

-----------------------------------------------------------------------------
(* The names of the function expressions *)

\* C30: FunctionName() of every function expression is the lower-cased name
\* its String() prints.
C30_FunctionName ==
    Returned2("FunctionName") => call.res.name = LowerName(call.res.string)

\* What holds of the names: every function expression but Area reports the
\* lower-cased name of its String().
FunctionNameButArea ==
    (Returned2("FunctionName") /\ call.args[1] # "Area")
      => call.res.name = LowerName(call.res.string)


====
